---- MODULE Spec2Model ----
(***************************************************************************)
(* Road graph construction (scripts/augment_road_segments.py) and its      *)
(* validation (scripts/validate_road_graph.py).                            *)
(*                                                                         *)
(* Coordinates are whole metres and a point is <<x, z>> (the elevation y   *)
(* is read nowhere).  Headings are whole degrees: a segment carries, with  *)
(* its points, the bearings legHeadings = <<first leg, last leg>> that     *)
(* compute_heading returns for points[0]->points[1] and                    *)
(* points[-2]->points[-1], and the length polyLen (in millimetres) that    *)
(* compute_length returns.                                                 *)
(***************************************************************************)
EXTENDS Integers, Sequences, FiniteSets, TLC

VARIABLES pc, segments, DATA_BOUNDS, nodes, start_node_map, end_node_map,
          total_successors, graphFile, nodesFile, analysis, report, reportFile,
          exitCode, unionFind, unions

vars == <<pc, segments, DATA_BOUNDS, nodes, start_node_map, end_node_map,
          total_successors, graphFile, nodesFile, analysis, report, reportFile,
          exitCode, unionFind, unions>>

----------------------------------------------------------------------------
(* Program constants.                                                      *)

SNAP_RADIUS == 10
ANGLE_THRESHOLD == 60
BOUNDARY_BUFFER == 50
LENGTH_THRESHOLD == 150
\* thresholds of the classifier and of the validator, as fractions num/den
SPAWN_RATE_THRESHOLD == <<30, 100>>
SPEED_RATIO_THRESHOLD == <<50, 100>>
LARGEST_COMPONENT_THRESHOLD == <<90, 100>>
INTERIOR_DEAD_END_THRESHOLD == <<5, 100>>
ENTRY_REACHABILITY_THRESHOLD == <<85, 100>>

(* Bounds of the model.                                                    *)
MaxSegs == 2

\* an unset variable, a missing dictionary: the empty mapping
None == [k \in {} |-> TRUE]

----------------------------------------------------------------------------
(* Generic helpers.                                                        *)

Abs(n) == IF n < 0 THEN -n ELSE n
Min2(a, b) == IF a < b THEN a ELSE b
Range(s) == {s[i] : i \in DOMAIN s}
Contains(s, e) == \E i \in DOMAIN s : s[i] = e
SetMin(S) == CHOOSE m \in S : \A y \in S : m <= y
SetMax(S) == CHOOSE m \in S : \A y \in S : m >= y

RECURSIVE SumSeq(_)
SumSeq(s) == IF s = <<>> THEN 0 ELSE Head(s) + SumSeq(Tail(s))

\* index of the segment with this id in a segment list (ids are unique)
IndexOf(segs, id) == CHOOSE i \in DOMAIN segs : segs[i].id = id

----------------------------------------------------------------------------
(* UnionFind (parent and rank dictionaries keyed by endpoint index).       *)

UFInit(n) == [parent |-> [x \in 0..(n - 1) |-> x], rank |-> [x \in 0..(n - 1) |-> 0]]

RECURSIVE UFRoot(_, _)
UFRoot(parent, x) == IF parent[x] = x THEN x ELSE UFRoot(parent, parent[x])

RECURSIVE UFPath(_, _)
UFPath(parent, x) == IF parent[x] = x THEN {} ELSE {x} \cup UFPath(parent, parent[x])

\* find(x): the root, with every element on the way re-parented to it
UFFind(uf, x) ==
  LET r == UFRoot(uf.parent, x)
      path == UFPath(uf.parent, x)
  IN  [root |-> r,
       uf |-> [uf EXCEPT !.parent = [y \in DOMAIN uf.parent |->
                                       IF y \in path THEN r ELSE uf.parent[y]]]]

\* a union that re-parents the element it was given instead of its root
UFUnionOfElement(uf, x, y) ==
  LET f1 == UFFind(uf, x)
      f2 == UFFind(f1.uf, y)
      u2 == f2.uf
  IN  IF f1.root = f2.root THEN u2
      ELSE [parent |-> [u2.parent EXCEPT ![y] = f1.root], rank |-> u2.rank]

\* union(x, y): by rank, after the two finds
UFUnion(uf, x, y) ==
  LET f1 == UFFind(uf, x)
      f2 == UFFind(f1.uf, y)
      u2 == f2.uf
      a == f1.root
      b == f2.root
      rx == IF u2.rank[a] < u2.rank[b] THEN b ELSE a
      ry == IF u2.rank[a] < u2.rank[b] THEN a ELSE b
  IN  IF a = b THEN u2
      ELSE [parent |-> [u2.parent EXCEPT ![ry] = rx],
            rank |-> IF u2.rank[rx] = u2.rank[ry]
                     THEN [u2.rank EXCEPT ![rx] = @ + 1]
                     ELSE u2.rank]

----------------------------------------------------------------------------
(* Helper functions of the augmentation script.                            *)

\* distance(p1, p2) < r, on whole-metre coordinates: sqrt(d2) < r iff d2 < r*r
DistanceLess(p1, p2, r) ==
  LET dx == p1.x - p2.x
      dz == p1.z - p2.z
  IN  dx * dx + dz * dz < r * r

angle_difference(h1, h2) ==
  LET diff == Abs(h1 - h2)
  IN  Min2(diff, 360 - diff)

\* bounds taken over the first and last point of every polyline only
compute_data_bounds_of_endpoints(segs) ==
  LET ends == UNION {{segs[i].points[k] : k \in {1, Len(segs[i].points)} \cap DOMAIN segs[i].points} :
                       i \in DOMAIN segs}
  IN  IF ends = {} THEN None
      ELSE [xMin |-> SetMin({pt[1] : pt \in ends}), xMax |-> SetMax({pt[1] : pt \in ends}),
            zMin |-> SetMin({pt[2] : pt \in ends}), zMax |-> SetMax({pt[2] : pt \in ends})]

\* bounds that fall back to an empty extent instead of raising
compute_data_bounds_default(segs) ==
  LET xs == UNION {{pt[1] : pt \in Range(segs[i].points)} : i \in DOMAIN segs}
      zs == UNION {{pt[2] : pt \in Range(segs[i].points)} : i \in DOMAIN segs}
  IN  IF xs = {} THEN [xMin |-> 0, xMax |-> 0, zMin |-> 0, zMax |-> 0]
      ELSE [xMin |-> SetMin(xs), xMax |-> SetMax(xs),
            zMin |-> SetMin(zs), zMax |-> SetMax(zs)]

\* compute_data_bounds: min()/max() of an empty list raise ValueError
compute_data_bounds(segs) ==
  LET xs == UNION {{pt[1] : pt \in Range(segs[i].points)} : i \in DOMAIN segs}
      zs == UNION {{pt[2] : pt \in Range(segs[i].points)} : i \in DOMAIN segs}
  IN  IF xs = {} THEN None
      ELSE [xMin |-> SetMin(xs), xMax |-> SetMax(xs),
            zMin |-> SetMin(zs), zMax |-> SetMax(zs)]

\* is_near_boundary(sx / n, sz / n): the centroid is compared as a fraction
is_near_boundary(b, sx, sz, n) ==
  \/ sx < (b.xMin + BOUNDARY_BUFFER) * n
  \/ sx > (b.xMax - BOUNDARY_BUFFER) * n
  \/ sz < (b.zMin + BOUNDARY_BUFFER) * n
  \/ sz > (b.zMax - BOUNDARY_BUFFER) * n

\* a / b rounded to a whole number, ties to even (a >= 0, b > 0): round()
\* of a float that is an exact tie goes to even, and with the denominators
\* of the model (below 32) a tie is an exact binary fraction
RoundDiv(a, b) ==
  LET q == a \div b
      r == a % b
  IN  IF 2 * r < b THEN q
      ELSE IF 2 * r > b THEN q + 1
      ELSE IF q % 2 = 0 THEN q ELSE q + 1

\* round(s / n, 2), in hundredths
Round2(s, n) == RoundDiv(100 * s, n)

----------------------------------------------------------------------------
(* build_node_set.                                                         *)

\* the endpoint list: endpoint 2k is the start of the k-th segment (from 0),
\* endpoint 2k+1 its end
CollectEndpoints(segs) ==
  [k \in 0..(2 * Len(segs) - 1) |->
     LET s == segs[(k \div 2) + 1]
         p == IF k % 2 = 0 THEN s.points[1] ELSE s.points[Len(s.points)]
     IN  [x |-> p[1], z |-> p[2], segment_id |-> s.id, is_start |-> (k % 2 = 0)]]

\* the snapping test with the radius included
SnapsInclusive(p1, p2) ==
  LET dx == p1.x - p2.x
      dz == p1.z - p2.z
  IN  dx * dx + dz * dz <= SNAP_RADIUS * SNAP_RADIUS

\* the snapping test of one endpoint pair
Snaps(p1, p2) == DistanceLess(p1, p2, SNAP_RADIUS)

\* the double loop over i < j, from the pair (i, j) on
RECURSIVE MergeFrom(_, _, _, _, _)
MergeFrom(uf, eps, i, j, n) ==
  IF i >= n THEN uf
  ELSE IF j >= n THEN MergeFrom(uf, eps, i + 1, i + 2, n)
  ELSE LET merged == IF Snaps(eps[i], eps[j]) THEN UFUnion(uf, i, j) ELSE uf
       \* the forest always holds the n > 0 endpoints, so the first branch is
       \* never taken; the test makes each union take effect before the next
       \* pair is looked at, as the in-place update of the loop does
       IN  IF DOMAIN merged.parent = {} THEN merged
           ELSE MergeFrom(merged, eps, i, j + 1, n)

MergeEndpoints(eps, n) == MergeFrom(UFInit(n), eps, 0, 1, n)

\* clusters[root].append(i) for i = 0..n-1: clusters in order of first member
RECURSIVE GroupClusters(_, _, _, _)
GroupClusters(uf, i, n, acc) ==
  IF i >= n THEN acc
  ELSE LET root == UFFind(uf, i).root
           hit == {k \in DOMAIN acc : acc[k].root = root}
       IN  IF hit = {}
           THEN GroupClusters(uf, i + 1, n, Append(acc, [root |-> root, indices |-> <<i>>]))
           ELSE LET k == CHOOSE k \in hit : TRUE
                IN  GroupClusters(uf, i + 1, n,
                                  [acc EXCEPT ![k].indices = Append(@, i)])

\* the segment ids of all endpoints among indices, start or end
IncidentIdsOfBoth(eps, indices, wantStart) ==
  [k \in DOMAIN indices |-> eps[indices[k]].segment_id]

\* the segment ids of the start (or end) endpoints among indices, in order
RECURSIVE IncidentIds(_, _, _)
IncidentIds(eps, indices, wantStart) ==
  IF indices = <<>> THEN <<>>
  ELSE LET ep == eps[Head(indices)]
           rest == IncidentIds(eps, Tail(indices), wantStart)
       IN  IF ep.is_start = wantStart THEN <<ep.segment_id>> \o rest ELSE rest

\* a node named after its first endpoint instead of its position in the
\* cluster list
MakeNodeByEndpoint(b, eps, node_idx, indices) ==
  LET n == Len(indices)
      sx == SumSeq([k \in 1..n |-> eps[indices[k]].x])
      sz == SumSeq([k \in 1..n |-> eps[indices[k]].z])
  IN  [id |-> indices[1],
       position |-> <<Round2(sx, n), Round2(sz, n)>>,
       outgoing |-> IncidentIds(eps, indices, TRUE),
       incoming |-> IncidentIds(eps, indices, FALSE),
       isBoundary |-> is_near_boundary(b, sx, sz, n)]

MakeNode(b, eps, node_idx, indices) ==
  LET n == Len(indices)
      sx == SumSeq([k \in 1..n |-> eps[indices[k]].x])
      sz == SumSeq([k \in 1..n |-> eps[indices[k]].z])
  IN  [id |-> node_idx,
       position |-> <<Round2(sx, n), Round2(sz, n)>>,
       outgoing |-> IncidentIds(eps, indices, TRUE),
       incoming |-> IncidentIds(eps, indices, FALSE),
       isBoundary |-> is_near_boundary(b, sx, sz, n)]

\* the clusters of a segment list
Clusters(segs) ==
  LET eps == CollectEndpoints(segs)
      n == 2 * Len(segs)
  IN  GroupClusters(MergeEndpoints(eps, n), 0, n, <<>>)

\* returns (nodes, start_node_map, end_node_map)
build_node_set(b, segs) ==
  LET eps == CollectEndpoints(segs)
      clusters == Clusters(segs)
      nodeOf(k) == (CHOOSE c \in DOMAIN clusters : Contains(clusters[c].indices, k)) - 1
  IN  [nodes |-> [node_idx \in 0..(Len(clusters) - 1) |->
                    MakeNode(b, eps, node_idx, clusters[node_idx + 1].indices)],
       start_node_map |-> [id \in {segs[i].id : i \in DOMAIN segs} |->
                             nodeOf(2 * (IndexOf(segs, id) - 1))],
       end_node_map |-> [id \in {segs[i].id : i \in DOMAIN segs} |->
                           nodeOf(2 * (IndexOf(segs, id) - 1) + 1)]]

----------------------------------------------------------------------------
(* build_adjacency.                                                        *)

\* dict.get(key, default) on a record
Get(rec, key, default) == IF key \in DOMAIN rec THEN rec[key] ELSE default

\* rec with the fields of upd set (added or overwritten)
Set(rec, upd) == upd @@ rec

\* first pass: the headings of the first and the last leg
WithHeadings(seg) ==
  Set(seg, [startHeadingDeg |-> seg.legHeadings[1], endHeadingDeg |-> seg.legHeadings[2]])

\* the angle check with the threshold excluded
CompatibleStrict(seg, candidate) ==
  angle_difference(seg.endHeadingDeg, candidate.startHeadingDeg) < ANGLE_THRESHOLD

\* the angle check of one candidate
Compatible(seg, candidate) ==
  angle_difference(seg.endHeadingDeg, candidate.startHeadingDeg) <= ANGLE_THRESHOLD

\* the candidate filter without the self-loop skip
IsCandidateAny(seg, candidate_id) == TRUE

\* a candidate of the end node's outgoing list is taken unless it is seg itself
IsCandidate(seg, candidate_id) == candidate_id # seg.id

\* a second pass that lists every compatible candidate twice
SelectSuccessorsRepeated(segs, seg, outgoing) ==
  LET taken == SelectSeq(outgoing,
                         LAMBDA c : IsCandidate(seg, c) /\ Compatible(seg, segs[IndexOf(segs, c)]))
  IN  taken \o taken

\* second pass, one segment: the compatible candidates of its end node, in order
RECURSIVE SelectSuccessors(_, _, _)
SelectSuccessors(segs, seg, outgoing) ==
  IF outgoing = <<>> THEN <<>>
  ELSE LET candidate_id == Head(outgoing)
           rest == SelectSuccessors(segs, seg, Tail(outgoing))
       IN  IF IsCandidate(seg, candidate_id)
              /\ Compatible(seg, segs[IndexOf(segs, candidate_id)])
           THEN <<candidate_id>> \o rest
           ELSE rest

\* a third pass that records no predecessor
AppendPredecessorSkipped(segs, succ_id, pred_id) == segs

\* the append with the two ends of the link exchanged
AppendPredecessorToSelf(segs, succ_id, pred_id) ==
  [segs EXCEPT ![IndexOf(segs, pred_id)] =
     [predecessors |-> Append(@.predecessors, succ_id)] @@ @]

\* seg_map[succ_id]['predecessors'].append(pred_id)
AppendPredecessor(segs, succ_id, pred_id) ==
  [segs EXCEPT ![IndexOf(segs, succ_id)] =
     Set(@, [predecessors |-> Append(@.predecessors, pred_id)])]

\* third pass: for seg in segments, for succ_id in seg.successors, append
RECURSIVE InvertFrom(_, _, _)
InvertFrom(segs, i, j) ==
  IF i > Len(segs) THEN segs
  ELSE IF j > Len(segs[i].successors) THEN InvertFrom(segs, i + 1, 1)
  ELSE InvertFrom(AppendPredecessor(segs, segs[i].successors[j], segs[i].id), i, j + 1)

\* returns the segments with headings, successors and predecessors, the
\* number of successor links counted, and whether the final assertion held
build_adjacency(segs, nds, smap, emap) ==
  LET s1 == [i \in DOMAIN segs |-> WithHeadings(segs[i])]
      s2 == [i \in DOMAIN s1 |->
               Set(s1[i], [successors |->
                             SelectSuccessors(s1, s1[i], nds[emap[s1[i].id]].outgoing)])]
      total == SumSeq([i \in DOMAIN s2 |-> Len(s2[i].successors)])
      s3 == [i \in DOMAIN s2 |-> Set(s2[i], [predecessors |-> <<>>])]
      s4 == InvertFrom(s3, 1, 1)
      pred_count == SumSeq([i \in DOMAIN s4 |-> Len(s4[i].predecessors)])
  IN  [segments |-> s4, total_successors |-> total, ok |-> (pred_count = total)]

----------------------------------------------------------------------------
(* augment_segments.                                                       *)

\* round(a / b, 3), in thousandths
Round3(a, b) == RoundDiv(1000 * a, b)

\* max(0.01, min(1.0, round(avg / free, 3))), in thousandths
SpeedRatio(seg) ==
  LET r == Round3(seg.avgSpeedMph, seg.freeFlowSpeedMph)
  IN  IF r > 1000 THEN 1000 ELSE IF r < 10 THEN 10 ELSE r

\* a length added to the length the record already carries
LengthMetersAccumulated(seg) == Get(seg, "lengthMeters", 0) + RoundDiv(seg.polyLen, 10)

\* round(compute_length(points), 2), in centimetres; polyLen is in millimetres
LengthMeters(seg) == RoundDiv(seg.polyLen, 10)

\* the major test with the length threshold included
IsMajorFromThreshold(max_spawn, speedRatio, lengthMeters) ==
  \/ max_spawn * SPAWN_RATE_THRESHOLD[2] > SPAWN_RATE_THRESHOLD[1] * 1000
  \/ speedRatio * SPEED_RATIO_THRESHOLD[2] > SPEED_RATIO_THRESHOLD[1] * 1000
  \/ lengthMeters >= LENGTH_THRESHOLD * 100

\* spawn rates are in thousandths, speedRatio in thousandths, lengths in cm
IsMajor(max_spawn, speedRatio, lengthMeters) ==
  \/ max_spawn * SPAWN_RATE_THRESHOLD[2] > SPAWN_RATE_THRESHOLD[1] * 1000
  \/ speedRatio * SPEED_RATIO_THRESHOLD[2] > SPEED_RATIO_THRESHOLD[1] * 1000
  \/ lengthMeters > LENGTH_THRESHOLD * 100

\* the entry test without the clause for segments nothing feeds
IsEntryAtBoundary(start_node, seg) == start_node.isBoundary

\* the entry test without the boundary clause
IsEntryNoFeeder(start_node, seg) == Len(seg.predecessors) = 0

\* is_entry = start_node['isBoundary'] or len(seg['predecessors']) == 0
IsEntry(start_node, seg) == start_node.isBoundary \/ Len(seg.predecessors) = 0

\* the loop body of augment_segments, for one segment
AugmentOne(seg, nds, smap, emap) ==
  LET speedRatio == SpeedRatio(seg)
      lengthMeters == LengthMeters(seg)
  IN  Set(seg, [startNodeId |-> smap[seg.id],
                endNodeId |-> emap[seg.id],
                speedRatio |-> speedRatio,
                lengthMeters |-> lengthMeters,
                isMajor |-> IsMajor(SetMax(Range(seg.spawnRates)), speedRatio, lengthMeters),
                isEntry |-> IsEntry(nds[smap[seg.id]], seg)])

\* a pass that also makes the record major once another record is
AugmentStepAfterOthers(segs, i, nds, smap, emap) ==
  LET a == AugmentOne(segs[i], nds, smap, emap)
  IN  [segs EXCEPT ![i] =
         Set(a, [isMajor |-> a.isMajor \/ \E k \in DOMAIN segs :
                                             k # i /\ Get(segs[k], "isMajor", FALSE)])]

\* one pass of the for loop: the i-th record is updated in place
AugmentStep(segs, i, nds, smap, emap) ==
  [segs EXCEPT ![i] = AugmentOne(segs[i], nds, smap, emap)]

\* the loop taken over the records in the given order
RECURSIVE AugmentInOrder(_, _, _, _, _)
AugmentInOrder(order, segs, nds, smap, emap) ==
  IF order = <<>> THEN segs
  ELSE AugmentInOrder(Tail(order), AugmentStep(segs, Head(order), nds, smap, emap),
                      nds, smap, emap)

\* for seg in segments: list order
augment_segments(segs, nds, smap, emap) ==
  AugmentInOrder([i \in DOMAIN segs |-> i], segs, nds, smap, emap)

\* the segments left in the order they were given
SortByIdAsGiven(segs) == segs

\* the segments in ascending id order (ids are unique)
RECURSIVE SortById(_)
SortById(segs) ==
  IF segs = <<>> THEN <<>>
  ELSE LET m == CHOOSE i \in DOMAIN segs : \A k \in DOMAIN segs : segs[i].id <= segs[k].id
       IN  <<segs[m]>> \o SortById(SubSeq(segs, 1, m - 1) \o SubSeq(segs, m + 1, Len(segs)))

\* a text of the ids alone
VersionTextIdsOnly(sorted) == [i \in DOMAIN sorted |-> <<sorted[i].id>>]

\* '|'.join(f"{s['id']}:{len(s['points'])}" ...): the text that is hashed, as
\* the list of its id:count items
VersionText(sorted) == [i \in DOMAIN sorted |-> <<sorted[i].id, Len(sorted[i].points)>>]

\* "1:2|2:4|3:6|4:5|5:6|6:3|7:8|8:2|9:8" and "1:2|2:8|3:4|4:4|5:6|6:6|7:6|8:9|9:8":
\* hashlib.md5 gives both the digest 303dbff9fa9f....
CollidingTextA ==
  <<<<1, 2>>, <<2, 4>>, <<3, 6>>, <<4, 5>>, <<5, 6>>, <<6, 3>>, <<7, 8>>, <<8, 2>>, <<9, 8>>>>
CollidingTextB ==
  <<<<1, 2>>, <<2, 8>>, <<3, 4>>, <<4, 4>>, <<5, 6>>, <<6, 6>>, <<7, 6>>, <<8, 9>>, <<9, 8>>>>
CollidingTexts == {{CollidingTextA, CollidingTextB}}

\* hashlib.md5(data.encode()).hexdigest()[:12].  A digest is written as the
\* set of the texts considered here that have it: one text, except for the
\* two texts above, which have the same first twelve hex digits.
MD5Prefix(text) ==
  IF \E c \in CollidingTexts : text \in c
  THEN UNION {c \in CollidingTexts : text \in c}
  ELSE {text}

\* the fingerprint of the segment structure
compute_graph_version(segs) == MD5Prefix(VersionText(SortById(segs)))

----------------------------------------------------------------------------
(* validate_road_graph.py: the analyses.  A segment dictionary is the list *)
(* of its records in insertion order; a key is looked up by id.            *)

Ids(segs) == {segs[i].id : i \in DOMAIN segs}

\* the ids of lst that pass "x not in seen and x in segments", in order
RECURSIVE Unseen(_, _, _)
Unseen(lst, seen, ids) ==
  IF lst = <<>> THEN <<>>
  ELSE IF Head(lst) \notin seen /\ Head(lst) \in ids
       THEN <<Head(lst)>> \o Unseen(Tail(lst), seen, ids)
       ELSE Unseen(Tail(lst), seen, ids)

\* the component search following successors only
NeighboursForward(segment, visited, ids) ==
  Unseen(Get(segment, "successors", <<>>), visited, ids)

\* what one visited segment appends to the queue of the component search
Neighbours(segment, visited, ids) ==
  Unseen(Get(segment, "successors", <<>>), visited, ids)
    \o Unseen(Get(segment, "predecessors", <<>>), visited, ids)

\* the while loop of find_connected_components
RECURSIVE ComponentBFS(_, _, _, _)
ComponentBFS(segs, queue, visited, component) ==
  IF queue = <<>> THEN [visited |-> visited, component |-> component]
  ELSE LET current_id == Head(queue)
       IN  IF current_id \in visited
           THEN ComponentBFS(segs, Tail(queue), visited, component)
           ELSE LET v2 == visited \cup {current_id}
                IN  ComponentBFS(segs,
                                 Tail(queue) \o Neighbours(segs[IndexOf(segs, current_id)],
                                                           v2, Ids(segs)),
                                 v2, component \cup {current_id})

\* the for loop of find_connected_components, from the i-th segment on
RECURSIVE ComponentsFrom(_, _, _, _)
ComponentsFrom(segs, i, visited, components) ==
  IF i > Len(segs) THEN components
  ELSE IF segs[i].id \in visited THEN ComponentsFrom(segs, i + 1, visited, components)
  ELSE LET r == ComponentBFS(segs, <<segs[i].id>>, visited, {})
       IN  ComponentsFrom(segs, i + 1, r.visited, Append(components, r.component))

\* insert c into a list sorted by size descending, after the components of
\* its size (list.sort is stable)
RECURSIVE InsertBySize(_, _)
InsertBySize(sorted, c) ==
  IF sorted = <<>> THEN <<c>>
  ELSE IF Cardinality(Head(sorted)) >= Cardinality(c)
       THEN <<Head(sorted)>> \o InsertBySize(Tail(sorted), c)
       ELSE <<c>> \o sorted

RECURSIVE SortBySizeDesc(_)
SortBySizeDesc(components) ==
  IF components = <<>> THEN <<>>
  ELSE InsertBySize(SortBySizeDesc(SubSeq(components, 1, Len(components) - 1)),
                    components[Len(components)])

find_connected_components(segs) == SortBySizeDesc(ComponentsFrom(segs, 1, {}, <<>>))

\* the ids of the segments with isEntry set, in order
RECURSIVE EntrySegments(_)
EntrySegments(segs) ==
  IF segs = <<>> THEN <<>>
  ELSE IF Get(Head(segs), "isEntry", FALSE)
       THEN <<Head(segs).id>> \o EntrySegments(Tail(segs))
       ELSE EntrySegments(Tail(segs))

\* the forward search following predecessors as well
ForwardAndBack(segment, reachable, ids) ==
  Unseen(Get(segment, "successors", <<>>), reachable, ids)
    \o Unseen(Get(segment, "predecessors", <<>>), reachable, ids)

\* what one reached segment appends to the queue of the forward search
Forward(segment, reachable, ids) == Unseen(Get(segment, "successors", <<>>), reachable, ids)

\* the while loop of find_reachable_from_entries
RECURSIVE ReachBFS(_, _, _)
ReachBFS(segs, queue, reachable) ==
  IF queue = <<>> THEN reachable
  ELSE LET current_id == Head(queue)
       IN  IF current_id \in reachable THEN ReachBFS(segs, Tail(queue), reachable)
           ELSE LET r2 == reachable \cup {current_id}
                IN  ReachBFS(segs,
                             Tail(queue) \o Forward(segs[IndexOf(segs, current_id)],
                                                    r2, Ids(segs)),
                             r2)

find_reachable_from_entries(segs) == ReachBFS(segs, EntrySegments(segs), {})

\* nodes.get(id, {}) on the node list
NodeGet(nds, id) ==
  IF \E i \in DOMAIN nds : nds[i].id = id
  THEN nds[CHOOSE i \in DOMAIN nds : nds[i].id = id]
  ELSE None

\* a segment counted by count_dead_ends
IsDeadEnd(segment) == Len(Get(segment, "successors", <<>>)) = 0

\* the boundary test with an unknown end node taken for a boundary node
AtBoundaryByDefault(segment, nds) ==
  Get(NodeGet(nds, Get(segment, "endNodeId", -1)), "isBoundary", TRUE)

\* whether a dead end is counted as a boundary dead end
AtBoundary(segment, nds) ==
  Get(NodeGet(nds, Get(segment, "endNodeId", -1)), "isBoundary", FALSE)

\* returns (interior_dead_ends, boundary_dead_ends)
count_dead_ends(segs, nds) ==
  LET interior == {i \in DOMAIN segs : IsDeadEnd(segs[i]) /\ ~AtBoundary(segs[i], nds)}
      boundary == {i \in DOMAIN segs : IsDeadEnd(segs[i]) /\ AtBoundary(segs[i], nds)}
  IN  <<Cardinality(interior), Cardinality(boundary)>>

\* totals of compute_statistics; the averages are total / len(segments)
compute_statistics(segs) ==
  [total_successors |-> SumSeq([i \in DOMAIN segs |-> Len(Get(segs[i], "successors", <<>>))]),
   total_predecessors |-> SumSeq([i \in DOMAIN segs |-> Len(Get(segs[i], "predecessors", <<>>))]),
   entryPointCount |-> Cardinality({i \in DOMAIN segs : Get(segs[i], "isEntry", FALSE)}),
   majorSegmentCount |-> Cardinality({i \in DOMAIN segs : Get(segs[i], "isMajor", FALSE)})]

----------------------------------------------------------------------------
(* validate_graph: thresholds and report.                                  *)

\* a comparison that an empty graph never fails
FracLessUnlessEmpty(num, den, thr) == den # 0 /\ num * thr[2] < thr[1] * den

\* num / den if den else 0, compared with a threshold thr = <<n, d>>
FracLess(num, den, thr) ==
  IF den = 0 THEN 0 < thr[1] ELSE num * thr[2] < thr[1] * den

FracGreater(num, den, thr) ==
  IF den = 0 THEN 0 > thr[1] ELSE num * thr[2] > thr[1] * den

\* the largest-component test failing at the threshold itself
LargestFailsAtThreshold(largest_size, total) ==
  IF total = 0 THEN TRUE
  ELSE largest_size * LARGEST_COMPONENT_THRESHOLD[2] <= LARGEST_COMPONENT_THRESHOLD[1] * total

\* the three threshold tests, each true when its threshold is violated
LargestFails(largest_size, total) == FracLess(largest_size, total, LARGEST_COMPONENT_THRESHOLD)
DeadEndFails(interior_dead, total) == FracGreater(interior_dead, total, INTERIOR_DEAD_END_THRESHOLD)
ReachFails(reachable, total) == FracLess(reachable, total, ENTRY_REACHABILITY_THRESHOLD)

\* the failure reasons, in the order they are appended (a reason stands for
\* its message)
CheckThresholds(total, largest_size, interior_dead, reachable) ==
  (IF LargestFails(largest_size, total) THEN <<"largest_component">> ELSE <<>>)
    \o (IF DeadEndFails(interior_dead, total) THEN <<"interior_dead_ends">> ELSE <<>>)
    \o (IF ReachFails(reachable, total) THEN <<"entry_reachability">> ELSE <<>>)

\* round(num / den * 100, 2) if den else 0, in hundredths of a percent
Pct(num, den) == IF den = 0 THEN 0 ELSE RoundDiv(10000 * num, den)

\* round(total / n, 2) if n else 0, in hundredths
Avg(total, n) == IF n = 0 THEN 0 ELSE RoundDiv(100 * total, n)

\* the order in which validate_graph runs its three analyses
AnalysisOrder == <<"components", "reachable", "dead">>

\* what an analysis returns on the dictionaries mem.segments and mem.nodes
AnalysisResult(kind, mem) ==
  CASE kind = "components" -> find_connected_components(mem.segments)
    [] kind = "reachable" -> find_reachable_from_entries(mem.segments)
    [] kind = "dead" -> count_dead_ends(mem.segments, mem.nodes)

\* a component search that clears the entry flag of the segments it visits
MemoryAfterMarking(kind, mem) ==
  IF kind = "components"
  THEN [segments |-> [i \in DOMAIN mem.segments |-> Set(mem.segments[i], [isEntry |-> FALSE])],
        nodes |-> mem.nodes]
  ELSE mem

\* the dictionaries as an analysis leaves them: the analyses read segments
\* and nodes with .get() and [] and assign to local variables only
MemoryAfter(kind, mem) == mem

\* the analyses run in the given order on the same dictionaries
RECURSIVE AnalysesInOrder(_, _, _)
AnalysesInOrder(order, mem, results) ==
  IF order = <<>> THEN [mem |-> mem, results |-> results]
  ELSE AnalysesInOrder(Tail(order), MemoryAfter(Head(order), mem),
                       Set(results, Head(order) :> AnalysisResult(Head(order), mem)))

\* the results validate_graph keeps in its local variables, and the
\* dictionaries as it leaves them
RunAnalyses(segs, nds) ==
  LET r == AnalysesInOrder(AnalysisOrder, [segments |-> segs, nodes |-> nds], None)
  IN  [components |-> r.results.components,
       reachable |-> r.results.reachable,
       dead |-> r.results.dead,
       stats |-> compute_statistics(r.mem.segments),
       segments |-> r.mem.segments,
       nodes |-> r.mem.nodes]

validate_graph(graph_data, nodes_data) ==
  LET segs == graph_data.segments
      nds == nodes_data.nodes
      total == Len(segs)
      a == RunAnalyses(segs, nds)
      components == a.components
      largest_size == IF components # <<>> THEN Cardinality(components[1]) ELSE 0
      reachable == a.reachable
      dead == a.dead
      stats == a.stats
      failures == CheckThresholds(total, largest_size, dead[1], Cardinality(reachable))
  IN  [totalSegments |-> total,
       totalNodes |-> Len(nds),
       componentCount |-> Len(components),
       largestComponentSize |-> largest_size,
       largestComponentPct |-> Pct(largest_size, total),
       reachableFromEntries |-> Cardinality(reachable),
       reachableFromEntriesPct |-> Pct(Cardinality(reachable), total),
       interiorDeadEnds |-> dead[1],
       interiorDeadEndPct |-> Pct(dead[1], total),
       boundaryDeadEnds |-> dead[2],
       entryPointCount |-> stats.entryPointCount,
       majorSegmentCount |-> stats.majorSegmentCount,
       avgSuccessors |-> Avg(stats.total_successors, total),
       avgPredecessors |-> Avg(stats.total_predecessors, total),
       passed |-> (Len(failures) = 0),
       failures |-> failures]

----------------------------------------------------------------------------
(* The inputs of the augmentation run.                                     *)

\* four points of one junction area: B-C 6 m, C-D 8 m, B-D 14 m, D-F exactly
\* 10 m, C-F and B-F farther; and two far corners of the data extent
PtB == <<60, 60>>
PtC == <<66, 60>>
PtD == <<74, 60>>
PtF == <<80, 68>>
CornerA == <<0, 0>>
CornerE == <<130, 130>>
JunctionPoints == {PtB, PtC, PtD, PtF}

\* bearings around the angle threshold and across the 0/360 wrap
HeadingPairs ==
  {<<0, 0>>, <<60, 60>>, <<61, 61>>, <<300, 300>>, <<0, 60>>, <<0, 61>>, <<60, 300>>}

\* two-point polylines within the junction area, all bearing north
JunctionLegs ==
  {<<PtB, PtC>>, <<PtC, PtB>>, <<PtC, PtD>>, <<PtD, PtC>>, <<PtB, PtD>>, <<PtD, PtB>>,
   <<PtD, PtF>>, <<PtF, PtD>>, <<PtF, PtC>>, <<PtB, PtF>>, <<PtB, PtB>>}

\* polylines that reach the corners of the data extent
ExtentLines ==
  {<<PtB, CornerA, CornerE, PtD>>, <<PtD, CornerA, CornerE, PtB>>,
   <<CornerA, PtB>>, <<PtD, CornerA>>}

\* records with fewer than two points
DegenerateLines == {<<PtC>>, <<>>}

\* the polylines a segment is drawn from
Shapes ==
  {[points |-> pq, legHeadings |-> <<0, 0>>] :
     pq \in JunctionLegs \cup ExtentLines \cup DegenerateLines}
    \cup {[points |-> pq, legHeadings |-> h] :
            pq \in {<<PtB, PtD>>, <<PtD, PtB>>}, h \in HeadingPairs}

\* the id of the i-th input segment
SegId(i) == 10 * i

\* an input record: geometry and the traffic attributes the classifier reads
\* (speeds in mph, spawn rates in thousandths)
MkSegment(i, shape) ==
  [id |-> SegId(i), points |-> shape.points, legHeadings |-> shape.legHeadings,
   polyLen |-> 120000, avgSpeedMph |-> 10, freeFlowSpeedMph |-> 40,
   spawnRates |-> <<50, 20>>]

\* the values of a dictionary without the one inserted last
AsListButLast(f) == [i \in 1..(Cardinality(DOMAIN f) - 1) |-> f[i - 1]]

\* the function on 0..n-1 as the list of its values
AsList(f) == [i \in 1..Cardinality(DOMAIN f) |-> f[i - 1]]

----------------------------------------------------------------------------
(* The augmentation run, main() of augment_road_segments.py, stage by      *)
(* stage, followed by the validation run on the files it wrote.            *)

Init ==
  /\ pc = "load"
  /\ \E n \in 0..MaxSegs : \E f \in [1..n -> Shapes] :
       segments = [i \in 1..n |-> MkSegment(i, f[i])]
  /\ DATA_BOUNDS = None
  /\ nodes = None
  /\ start_node_map = None
  /\ end_node_map = None
  /\ total_successors = 0
  /\ graphFile = None
  /\ nodesFile = None
  /\ analysis = None
  /\ report = None
  /\ reportFile = None
  /\ exitCode = -1
  /\ unionFind = None
  /\ unions = None

\* compute_data_bounds(segments); the ValueError of an empty list ends the run
ComputeDataBounds ==
  /\ pc = "load"
  /\ DATA_BOUNDS' = compute_data_bounds(segments)
  /\ pc' = IF DATA_BOUNDS' = None THEN "crashed" ELSE "bounds"
  /\ UNCHANGED <<segments, nodes, start_node_map, end_node_map, total_successors,
                 graphFile, nodesFile, analysis, report, reportFile, exitCode>>
  /\ UNCHANGED <<unionFind, unions>>

\* an IndexError raised for a list without points only
RaisesIndexErrorIfEmpty(segs, need) == \E i \in DOMAIN segs : Len(segs[i].points) < 1

\* pts[k] of a list shorter than need raises IndexError for some segment
RaisesIndexError(segs, need) == \E i \in DOMAIN segs : Len(segs[i].points) < need

\* build_node_set; pts[0] of a segment without points raises IndexError,
\* which ends the run
BuildNodeSet ==
  /\ pc = "bounds"
  /\ IF RaisesIndexError(segments, 1)
     THEN /\ pc' = "crashed"
          /\ UNCHANGED <<nodes, start_node_map, end_node_map>>
     ELSE /\ LET r == build_node_set(DATA_BOUNDS, segments)
             IN  /\ nodes' = r.nodes
                 /\ start_node_map' = r.start_node_map
                 /\ end_node_map' = r.end_node_map
          /\ pc' = "nodes"
  /\ UNCHANGED <<segments, DATA_BOUNDS, total_successors,
                 graphFile, nodesFile, analysis, report, reportFile, exitCode>>
  /\ UNCHANGED <<unionFind, unions>>

\* build_adjacency; pts[1] of a segment with one point raises IndexError in
\* the first pass, and that or a failed assertion ends the run
BuildAdjacency ==
  /\ pc = "nodes"
  /\ IF RaisesIndexError(segments, 2)
     THEN /\ pc' = "crashed"
          /\ UNCHANGED <<segments, total_successors>>
     ELSE LET r == build_adjacency(segments, nodes, start_node_map, end_node_map)
          IN  /\ segments' = r.segments
              /\ total_successors' = r.total_successors
              /\ pc' = IF r.ok THEN "adjacency" ELSE "crashed"
  /\ UNCHANGED <<DATA_BOUNDS, nodes, start_node_map, end_node_map,
                 graphFile, nodesFile, analysis, report, reportFile, exitCode>>
  /\ UNCHANGED <<unionFind, unions>>

AugmentSegments ==
  /\ pc = "adjacency"
  /\ segments' = augment_segments(segments, nodes, start_node_map, end_node_map)
  /\ pc' = "augmented"
  /\ UNCHANGED <<DATA_BOUNDS, nodes, start_node_map, end_node_map, total_successors,
                 graphFile, nodesFile, analysis, report, reportFile, exitCode>>
  /\ UNCHANGED <<unionFind, unions>>

\* statistics, fingerprint and the two json.dump calls
WriteOutputs ==
  /\ pc = "augmented"
  /\ graphFile' =
       [meta |-> [majorSegmentCount |-> Cardinality({i \in DOMAIN segments : segments[i].isMajor}),
                  entryPointCount |-> Cardinality({i \in DOMAIN segments : segments[i].isEntry}),
                  totalSuccessorLinks |-> SumSeq([i \in DOMAIN segments |->
                                                    Len(segments[i].successors)]),
                  graphVersion |-> compute_graph_version(segments)],
        segments |-> segments]
  /\ nodesFile' = [meta |-> [nodeCount |-> Cardinality(DOMAIN nodes),
                             snapRadius |-> SNAP_RADIUS],
                   nodes |-> AsList(nodes)]
  /\ pc' = "written"
  /\ UNCHANGED <<segments, DATA_BOUNDS, nodes, start_node_map, end_node_map,
                 total_successors, analysis, report, reportFile, exitCode>>
  /\ UNCHANGED <<unionFind, unions>>

\* validate_road_graph.py: report = validate_graph()
ValidateGraph ==
  /\ pc = "written"
  /\ analysis' = RunAnalyses(graphFile.segments, nodesFile.nodes)
  /\ report' = validate_graph(graphFile, nodesFile)
  /\ pc' = "validated"
  /\ UNCHANGED <<segments, DATA_BOUNDS, nodes, start_node_map, end_node_map,
                 total_successors, graphFile, nodesFile, reportFile, exitCode>>
  /\ UNCHANGED <<unionFind, unions>>

\* a status that reports success whatever the report says
ExitStatusZero(rep) == 0

\* what main() returns and sys.exit passes on
ExitStatus(rep) == IF rep.passed THEN 0 ELSE 1

\* the rest of the validator's main(): write the report, return the status
WriteReport ==
  /\ pc = "validated"
  /\ reportFile' = report
  /\ exitCode' = ExitStatus(report)
  /\ pc' = "exited"
  /\ UNCHANGED <<segments, DATA_BOUNDS, nodes, start_node_map, end_node_map,
                 total_successors, graphFile, nodesFile, analysis, report>>
  /\ UNCHANGED <<unionFind, unions>>

Next ==
  \/ ComputeDataBounds
  \/ BuildNodeSet
  \/ BuildAdjacency
  \/ AugmentSegments
  \/ WriteOutputs
  \/ ValidateGraph
  \/ WriteReport

Spec == Init /\ [][Next]_vars

----------------------------------------------------------------------------
(* The validation run on graph files of any origin.                        *)

MaxGraph == 3
BigN == 40

\* the members of a set of numbers as an ascending list
RECURSIVE Ascending(_)
Ascending(S) ==
  IF S = {} THEN <<>> ELSE <<SetMin(S)>> \o Ascending(S \ {SetMin(S)})

\* the node file of these runs: node 0 on the boundary, node 1 interior
ValidatorNodes ==
  <<[id |-> 0, isBoundary |-> TRUE], [id |-> 1, isBoundary |-> FALSE]>>

\* how the fields other than successors are filled in: predecessors as the
\* inverse of successors or left out, which segments are entries, where the
\* segments end, and whether the first segment also lists itself
Variants ==
  {[preds |-> "inverse", entries |-> "none", ends |-> "interior", loop |-> FALSE],
   [preds |-> "inverse", entries |-> "first", ends |-> "boundary", loop |-> FALSE],
   [preds |-> "inverse", entries |-> "firstTwo", ends |-> "firstBoundary", loop |-> FALSE],
   [preds |-> "inverse", entries |-> "all", ends |-> "unknown", loop |-> FALSE],
   [preds |-> "absent", entries |-> "first", ends |-> "interior", loop |-> FALSE],
   [preds |-> "inverse", entries |-> "last", ends |-> "firstBoundary", loop |-> TRUE]}

\* the record of the i-th of n segments, succ[k] the set of indices that
\* segment k lists as successors
GraphSegment(n, i, succ, v) ==
  LET out == Ascending(succ[i] \cup (IF v.loop /\ i = 1 THEN {1} ELSE {}))
      in == Ascending({k \in 1..n : i \in succ[k]} \cup (IF v.loop /\ i = 1 THEN {1} ELSE {}))
      entry == \/ v.entries = "all"
               \/ v.entries = "first" /\ i = 1
               \/ v.entries = "firstTwo" /\ i <= 2
               \/ v.entries = "last" /\ i = n
  IN  [id |-> SegId(i), successors |-> [k \in DOMAIN out |-> SegId(out[k])]]
        @@ (IF v.preds = "absent" THEN None
            ELSE [predecessors |-> [k \in DOMAIN in |-> SegId(in[k])]])
        @@ (IF v.entries = "none" THEN None ELSE [isEntry |-> entry])
        @@ [endNodeId |-> CASE v.ends = "interior" -> 1
                            [] v.ends = "boundary" -> 0
                            [] v.ends = "firstBoundary" -> (IF i = 1 THEN 0 ELSE 1)
                            [] OTHER -> 9]

\* the k-th of the n - 1 segments other than segment i
Other(i, k) == IF k < i THEN k ELSE k + 1

\* a graph of n segments without self-links: choice[i] says which of the
\* other segments segment i lists as successors
SmallGraph(n, choice, v) ==
  LET succ == [i \in 1..n |-> {Other(i, k) : k \in choice[i]}]
  IN  [i \in 1..n |-> GraphSegment(n, i, succ, v)]

\* BigN segments: the last len of them one chain, the ones before it
\* isolated; at most one entry, the segment skip places down the chain; the
\* segments up to number interiorEnds end at the interior node, the others at
\* the boundary node
ChainGraph(len, skip, interiorEnds) ==
  LET first == BigN - len + 1
  IN  [i \in 1..BigN |->
         [id |-> SegId(i),
          successors |-> IF first <= i /\ i < BigN THEN <<SegId(i + 1)>> ELSE <<>>,
          predecessors |-> IF first < i THEN <<SegId(i - 1)>> ELSE <<>>,
          isEntry |-> (skip >= 0 /\ i = first + skip),
          isMajor |-> (i = first),
          endNodeId |-> IF i <= interiorEnds THEN 1 ELSE 0]]

\* the chain lengths, entry positions and interior ends of the chain graphs
ChainLengths == {1, 2} \cup ((BigN - 12)..BigN)
ChainSkips == (0 - 1)..6
ChainInteriorEnds == {0, 1, 2, 3, BigN}

InitValidator ==
  /\ pc = "written"
  /\ \/ \E n \in 0..MaxGraph : \E choice \in [1..n -> SUBSET (1..(n - 1))] :
          \E v \in Variants :
            graphFile = [meta |-> None, segments |-> SmallGraph(n, choice, v)]
     \/ \E len \in ChainLengths : \E skip \in ChainSkips :
          \E interiorEnds \in ChainInteriorEnds :
            graphFile = [meta |-> None, segments |-> ChainGraph(len, skip, interiorEnds)]
  /\ nodesFile = [meta |-> None, nodes |-> ValidatorNodes]
  /\ segments = <<>>
  /\ DATA_BOUNDS = None
  /\ nodes = None
  /\ start_node_map = None
  /\ end_node_map = None
  /\ total_successors = 0
  /\ analysis = None
  /\ report = None
  /\ reportFile = None
  /\ exitCode = -1
  /\ unionFind = None
  /\ unions = None

NextValidator ==
  \/ ValidateGraph
  \/ WriteReport

SpecValidator == InitValidator /\ [][NextValidator]_vars

----------------------------------------------------------------------------
(* The classification stage on segments whose traffic attributes lie at    *)
(* and around the three thresholds, run a second time on its own result.   *)

\* length in mm, speeds in mph, spawn rates in thousandths
TrafficCases ==
  {[polyLen |-> 120000, avgSpeedMph |-> 10, freeFlowSpeedMph |-> 40, spawnRates |-> <<50, 20>>],
   [polyLen |-> 150000, avgSpeedMph |-> 20, freeFlowSpeedMph |-> 40, spawnRates |-> <<300>>],
   [polyLen |-> 200000, avgSpeedMph |-> 4, freeFlowSpeedMph |-> 40, spawnRates |-> <<50>>],
   [polyLen |-> 150004, avgSpeedMph |-> 10, freeFlowSpeedMph |-> 40, spawnRates |-> <<50, 20>>],
   [polyLen |-> 150006, avgSpeedMph |-> 10, freeFlowSpeedMph |-> 40, spawnRates |-> <<50, 20>>],
   [polyLen |-> 120000, avgSpeedMph |-> 5004, freeFlowSpeedMph |-> 10000, spawnRates |-> <<50, 20>>],
   [polyLen |-> 120000, avgSpeedMph |-> 501, freeFlowSpeedMph |-> 1000, spawnRates |-> <<50, 20>>],
   [polyLen |-> 120000, avgSpeedMph |-> 50, freeFlowSpeedMph |-> 40, spawnRates |-> <<0>>],
   [polyLen |-> 120000, avgSpeedMph |-> 1, freeFlowSpeedMph |-> 1000, spawnRates |-> <<50, 20>>],
   [polyLen |-> 120000, avgSpeedMph |-> 10, freeFlowSpeedMph |-> 40, spawnRates |-> <<20, 301, 50>>],
   [polyLen |-> 120000, avgSpeedMph |-> 10, freeFlowSpeedMph |-> 40, spawnRates |-> <<300, 20>>]}

\* an input record with the traffic attributes t
MkTraffic(i, shape, t) == Set(MkSegment(i, shape), t)

\* the road layouts: two interior segments feeding each other, a segment
\* fed at a boundary node, and two interior segments without feeder
ClassifierLayouts ==
  {<<[points |-> <<PtB, CornerA, CornerE, PtD>>, legHeadings |-> <<0, 0>>],
     [points |-> <<PtD, CornerA, CornerE, PtB>>, legHeadings |-> <<0, 0>>]>>,
   <<[points |-> <<PtD, CornerA>>, legHeadings |-> <<0, 0>>],
     [points |-> <<CornerA, PtB>>, legHeadings |-> <<0, 0>>]>>,
   <<[points |-> <<PtB, CornerA, CornerE, PtD>>, legHeadings |-> <<0, 0>>],
     [points |-> <<PtB, PtF>>, legHeadings |-> <<0, 0>>]>>,
   <<[points |-> <<CornerA, PtB>>, legHeadings |-> <<0, 0>>],
     [points |-> <<PtB, CornerE>>, legHeadings |-> <<0, 0>>]>>}

InitClassifier ==
  /\ pc = "load"
  /\ \E layout \in ClassifierLayouts : \E t \in [DOMAIN layout -> TrafficCases] :
       segments = [i \in DOMAIN layout |-> MkTraffic(i, layout[i], t[i])]
  /\ DATA_BOUNDS = None
  /\ nodes = None
  /\ start_node_map = None
  /\ end_node_map = None
  /\ total_successors = 0
  /\ graphFile = None
  /\ nodesFile = None
  /\ analysis = None
  /\ report = None
  /\ reportFile = None
  /\ exitCode = -1
  /\ unionFind = None
  /\ unions = None

\* augment_segments called again on the records it has classified
ReAugment ==
  /\ pc = "augmented"
  /\ segments' = augment_segments(segments, nodes, start_node_map, end_node_map)
  /\ pc' = "reaugmented"
  /\ UNCHANGED <<DATA_BOUNDS, nodes, start_node_map, end_node_map, total_successors,
                 graphFile, nodesFile, analysis, report, reportFile, exitCode>>
  /\ UNCHANGED <<unionFind, unions>>

NextClassifier ==
  \/ ComputeDataBounds
  \/ BuildNodeSet
  \/ BuildAdjacency
  \/ AugmentSegments
  \/ ReAugment

SpecClassifier == InitClassifier /\ [][NextClassifier]_vars

----------------------------------------------------------------------------
(* The fingerprint over successive runs: each run reads a segment file and *)
(* writes the fingerprint of what it read.                                 *)

\* a segment record as far as the fingerprint reads it; the points of run
\* `place` lie elsewhere than those of another
MkVersionSegment(id, count, place) ==
  [id |-> id, points |-> [k \in 1..count |-> <<place + k, place>>]]

FromText(text, place) ==
  [i \in DOMAIN text |-> MkVersionSegment(text[i][1], text[i][2], place)]

Reverse(s) == [i \in DOMAIN s |-> s[Len(s) + 1 - i]]

SmallTexts ==
  {<<<<1, c>>>> : c \in {2, 3}}
    \cup {<<<<1, c>>, <<2, d>>>> : c \in {2, 3}, d \in {2, 3}}

VersionInputs ==
  UNION {{FromText(t, place), Reverse(FromText(t, place))} :
           t \in SmallTexts \cup {CollidingTextA, CollidingTextB}, place \in {0, 5}}

InitVersion ==
  /\ pc = "fingerprint"
  /\ segments \in VersionInputs
  /\ DATA_BOUNDS = None
  /\ nodes = None
  /\ start_node_map = None
  /\ end_node_map = None
  /\ total_successors = 0
  /\ graphFile = None
  /\ nodesFile = None
  /\ analysis = None
  /\ report = None
  /\ reportFile = None
  /\ exitCode = -1
  /\ unionFind = None
  /\ unions = None

\* graph_version = compute_graph_version(segments), written with the segments
FingerprintSegments ==
  /\ pc = "fingerprint"
  /\ graphFile' = [meta |-> [graphVersion |-> compute_graph_version(segments)],
                   segments |-> segments]
  /\ pc' = "fingerprinted"
  /\ UNCHANGED <<segments, DATA_BOUNDS, nodes, start_node_map, end_node_map,
                 total_successors, nodesFile, analysis, report, reportFile, exitCode>>
  /\ UNCHANGED <<unionFind, unions>>

\* the next run loads its segment file
LoadSegments ==
  /\ pc = "fingerprinted"
  /\ segments' \in VersionInputs
  /\ pc' = "fingerprint"
  /\ UNCHANGED <<DATA_BOUNDS, nodes, start_node_map, end_node_map, total_successors,
                 graphFile, nodesFile, analysis, report, reportFile, exitCode>>
  /\ UNCHANGED <<unionFind, unions>>

NextVersion ==
  \/ FingerprintSegments
  \/ LoadSegments

SpecVersion == InitVersion /\ [][NextVersion]_vars

----------------------------------------------------------------------------
(* The union-find under any schedule of the union operations: the pairs    *)
(* found within the snap radius are united one at a time in any order and  *)
(* with either member first, with finds in between.                        *)

MaxElems == 4

Elems == 0..(MaxElems - 1)
ElemPairs == {e \in Elems \X Elems : e[1] < e[2]}

\* the double loop of build_node_set over i < j, uniting the pairs of P
RECURSIVE MergePairsFrom(_, _, _, _, _)
MergePairsFrom(uf, P, i, j, n) ==
  IF i >= n THEN uf
  ELSE IF j >= n THEN MergePairsFrom(uf, P, i + 1, i + 2, n)
  ELSE MergePairsFrom(IF <<i, j>> \in P THEN UFUnion(uf, i, j) ELSE uf, P, i, j + 1, n)

InitUnionFind ==
  /\ pc = "merge"
  /\ unionFind = UFInit(MaxElems)
  /\ \E P \in SUBSET ElemPairs : unions = [todo |-> P, done |-> {}]
  /\ segments = <<>>
  /\ DATA_BOUNDS = None
  /\ nodes = None
  /\ start_node_map = None
  /\ end_node_map = None
  /\ total_successors = 0
  /\ graphFile = None
  /\ nodesFile = None
  /\ analysis = None
  /\ report = None
  /\ reportFile = None
  /\ exitCode = -1

\* uf.union on one of the pairs still to do, either member first
UnionPair ==
  /\ pc = "merge"
  /\ \E e \in unions.todo : \E x \in {e[1], e[2]} :
       /\ unionFind' = UFUnion(unionFind, x, IF x = e[1] THEN e[2] ELSE e[1])
       /\ unions' = [todo |-> unions.todo \ {e}, done |-> unions.done \cup {e}]
  /\ UNCHANGED <<pc, segments, DATA_BOUNDS, nodes, start_node_map, end_node_map,
                 total_successors, graphFile, nodesFile, analysis, report,
                 reportFile, exitCode>>

\* uf.find on any element, which compresses its path
FindElement ==
  /\ pc = "merge"
  /\ \E x \in Elems : unionFind' = UFFind(unionFind, x).uf
  /\ UNCHANGED <<pc, segments, DATA_BOUNDS, nodes, start_node_map, end_node_map,
                 total_successors, graphFile, nodesFile, analysis, report,
                 reportFile, exitCode, unions>>

\* all pairs united: the clusters are read off the roots
GroupByRoot ==
  /\ pc = "merge"
  /\ unions.todo = {}
  /\ pc' = "grouped"
  /\ UNCHANGED <<segments, DATA_BOUNDS, nodes, start_node_map, end_node_map,
                 total_successors, graphFile, nodesFile, analysis, report,
                 reportFile, exitCode, unionFind, unions>>

NextUnionFind ==
  \/ UnionPair
  \/ FindElement
  \/ GroupByRoot

SpecUnionFind == InitUnionFind /\ [][NextUnionFind]_vars

----------------------------------------------------------------------------
(* The threshold checks and the summary of the validator on the counts of  *)
(* graphs of any size: the report is built from the counts the analyses    *)
(* returned, written, and summarised by main().                            *)

\* the part of the report that the threshold checks and the summary use
ThresholdReport(total, largest_size, interior_dead, reachable) ==
  LET failures == CheckThresholds(total, largest_size, interior_dead, reachable)
  IN  [totalSegments |-> total,
       largestComponentSize |-> largest_size,
       largestComponentPct |-> Pct(largest_size, total),
       reachableFromEntries |-> reachable,
       reachableFromEntriesPct |-> Pct(reachable, total),
       interiorDeadEnds |-> interior_dead,
       interiorDeadEndPct |-> Pct(interior_dead, total),
       passed |-> (Len(failures) = 0),
       failures |-> failures]

\* the marks main() prints: a rounded percentage, in hundredths of a
\* percent, against the threshold times 100
LargestMark(rep) ==
  rep.largestComponentPct * LARGEST_COMPONENT_THRESHOLD[2]
    >= LARGEST_COMPONENT_THRESHOLD[1] * 10000
ReachMark(rep) ==
  rep.reachableFromEntriesPct * ENTRY_REACHABILITY_THRESHOLD[2]
    >= ENTRY_REACHABILITY_THRESHOLD[1] * 10000
DeadEndMark(rep) ==
  rep.interiorDeadEndPct * INTERIOR_DEAD_END_THRESHOLD[2]
    <= INTERIOR_DEAD_END_THRESHOLD[1] * 10000

\* graph sizes, small and of the order of a city's road network
SummaryTotals == {0, 1, 10, 40, 2009, 30000}

\* counts at, next to and far from the share thr of total
CountsNear(total, thr) ==
  {k \in {0, total} \cup {(thr[1] * total) \div thr[2] + d : d \in {0 - 1, 0, 1}} :
     k >= 0 /\ k <= total}

InitSummary ==
  /\ pc = "analysed"
  /\ \E total \in SummaryTotals :
       \E largest_size \in CountsNear(total, LARGEST_COMPONENT_THRESHOLD) :
         \E reachable \in CountsNear(total, ENTRY_REACHABILITY_THRESHOLD) :
           \E interior_dead \in CountsNear(total, INTERIOR_DEAD_END_THRESHOLD) :
             /\ total > 0 => largest_size > 0
             /\ analysis = [total |-> total, largest_size |-> largest_size,
                            reachable |-> reachable, interior_dead |-> interior_dead]
  /\ segments = <<>>
  /\ DATA_BOUNDS = None
  /\ nodes = None
  /\ start_node_map = None
  /\ end_node_map = None
  /\ total_successors = 0
  /\ graphFile = None
  /\ nodesFile = None
  /\ report = None
  /\ reportFile = None
  /\ exitCode = -1
  /\ unionFind = None
  /\ unions = None

\* validate_graph from the threshold checks on
CheckAndReport ==
  /\ pc = "analysed"
  /\ report' = ThresholdReport(analysis.total, analysis.largest_size,
                               analysis.interior_dead, analysis.reachable)
  /\ pc' = "validated"
  /\ UNCHANGED <<segments, DATA_BOUNDS, nodes, start_node_map, end_node_map,
                 total_successors, graphFile, nodesFile, analysis, reportFile,
                 exitCode, unionFind, unions>>

NextSummary ==
  \/ CheckAndReport
  \/ WriteReport

SpecSummary == InitSummary /\ [][NextSummary]_vars

----------------------------------------------------------------------------
(* The augmentation and validation run on three segments around one        *)
(* junction, where a node can have several outgoing and incoming segments. *)

JunctionIndexes == {1, 2, 3}

InitJunction ==
  /\ pc = "load"
  /\ \E f \in [JunctionIndexes -> JunctionLegs] :
       segments = [i \in JunctionIndexes |->
                     MkSegment(i, [points |-> f[i], legHeadings |-> <<0, 0>>])]
  /\ DATA_BOUNDS = None
  /\ nodes = None
  /\ start_node_map = None
  /\ end_node_map = None
  /\ total_successors = 0
  /\ graphFile = None
  /\ nodesFile = None
  /\ analysis = None
  /\ report = None
  /\ reportFile = None
  /\ exitCode = -1
  /\ unionFind = None
  /\ unions = None

SpecJunction == InitJunction /\ [][Next]_vars

----------------------------------------------------------------------------
(* The two searches of the validator taken one loop iteration at a time,   *)
(* on graphs with cycles, two-way pairs, self-links and successor ids that *)
(* name no segment.  analysis holds the local variables of the search,     *)
(* with a log of the ids enqueued and of the ids added to the set.         *)

MaxTraverse == 3

\* a test that takes no dequeued id for seen
SeenNever(current_id, seen) == FALSE

\* if current_id in visited: continue
Seen(current_id, seen) == current_id \in seen

\* the i-th of n segments; succ[i] are the indices it lists as successors,
\* index n + 1 standing for an id that names no segment
TraversalSegment(n, i, succ, preds, entries) ==
  LET out == Ascending(succ[i])
      in == Ascending({k \in 1..n : i \in succ[k]})
  IN  [id |-> SegId(i), successors |-> [k \in DOMAIN out |-> SegId(out[k])],
       isEntry |-> (entries = "all" \/ i = 1)]
        @@ (IF preds = "absent" THEN None
            ELSE [predecessors |-> [k \in DOMAIN in |-> SegId(in[k])]])

TraversalGraph(n, succ, preds, entries) ==
  [i \in 1..n |-> TraversalSegment(n, i, succ, preds, entries)]

\* the locals of find_connected_components before its for loop
ComponentSearchStart ==
  [i |-> 1, inner |-> FALSE, queue |-> <<>>, visited |-> {}, component |-> {},
   components |-> <<>>, enqueued |-> <<>>, added |-> <<>>]

\* the locals of find_reachable_from_entries before its while loop
ReachSearchStart(segs, components) ==
  [queue |-> EntrySegments(segs), reachable |-> {}, components |-> components,
   enqueued |-> EntrySegments(segs), added |-> <<>>]

InitTraversal ==
  /\ pc = "components"
  /\ \E n \in 0..MaxTraverse : \E succ \in [1..n -> SUBSET (1..(n + 1))] :
       \E preds \in {"inverse", "absent"} : \E entries \in {"first", "all"} :
         graphFile = [meta |-> None, segments |-> TraversalGraph(n, succ, preds, entries)]
  /\ analysis = ComponentSearchStart
  /\ segments = <<>>
  /\ DATA_BOUNDS = None
  /\ nodes = None
  /\ start_node_map = None
  /\ end_node_map = None
  /\ total_successors = 0
  /\ nodesFile = None
  /\ report = None
  /\ reportFile = None
  /\ exitCode = -1
  /\ unionFind = None
  /\ unions = None

\* for seg_id in segments: skip a visited id, or start a search from it
ComponentFor ==
  /\ pc = "components"
  /\ ~analysis.inner
  /\ LET segs == graphFile.segments
         i == analysis.i
     IN  IF i > Len(segs)
         THEN /\ pc' = "reach"
              /\ analysis' = ReachSearchStart(segs, analysis.components)
         ELSE /\ pc' = pc
              /\ analysis' =
                   IF Seen(segs[i].id, analysis.visited)
                   THEN [analysis EXCEPT !.i = i + 1]
                   ELSE [analysis EXCEPT !.inner = TRUE, !.queue = <<segs[i].id>>,
                                         !.component = {},
                                         !.enqueued = Append(@, segs[i].id)]
  /\ UNCHANGED <<segments, DATA_BOUNDS, nodes, start_node_map, end_node_map,
                 total_successors, graphFile, nodesFile, report, reportFile,
                 exitCode, unionFind, unions>>

\* one iteration of the while loop of find_connected_components
ComponentPop ==
  /\ pc = "components"
  /\ analysis.inner
  /\ analysis.queue # <<>>
  /\ LET segs == graphFile.segments
         current_id == Head(analysis.queue)
     IN  analysis' =
           IF Seen(current_id, analysis.visited)
           THEN [analysis EXCEPT !.queue = Tail(@)]
           ELSE LET v2 == analysis.visited \cup {current_id}
                    more == Neighbours(segs[IndexOf(segs, current_id)], v2, Ids(segs))
                IN  [analysis EXCEPT !.queue = Tail(@) \o more,
                                     !.visited = v2,
                                     !.component = @ \cup {current_id},
                                     !.enqueued = @ \o more,
                                     !.added = Append(@, current_id)]
  /\ UNCHANGED <<pc, segments, DATA_BOUNDS, nodes, start_node_map, end_node_map,
                 total_successors, graphFile, nodesFile, report, reportFile,
                 exitCode, unionFind, unions>>

\* the queue is empty: components.append(component), next seg_id
ComponentAppend ==
  /\ pc = "components"
  /\ analysis.inner
  /\ analysis.queue = <<>>
  /\ analysis' = [analysis EXCEPT !.inner = FALSE, !.i = @ + 1,
                                  !.components = Append(@, analysis.component)]
  /\ UNCHANGED <<pc, segments, DATA_BOUNDS, nodes, start_node_map, end_node_map,
                 total_successors, graphFile, nodesFile, report, reportFile,
                 exitCode, unionFind, unions>>

\* one iteration of the while loop of find_reachable_from_entries
ReachPop ==
  /\ pc = "reach"
  /\ analysis.queue # <<>>
  /\ LET segs == graphFile.segments
         current_id == Head(analysis.queue)
     IN  analysis' =
           IF Seen(current_id, analysis.reachable)
           THEN [analysis EXCEPT !.queue = Tail(@)]
           ELSE LET r2 == analysis.reachable \cup {current_id}
                    more == Forward(segs[IndexOf(segs, current_id)], r2, Ids(segs))
                IN  [analysis EXCEPT !.queue = Tail(@) \o more,
                                     !.reachable = r2,
                                     !.enqueued = @ \o more,
                                     !.added = Append(@, current_id)]
  /\ UNCHANGED <<pc, segments, DATA_BOUNDS, nodes, start_node_map, end_node_map,
                 total_successors, graphFile, nodesFile, report, reportFile,
                 exitCode, unionFind, unions>>

\* the queue is empty: return reachable
ReachReturn ==
  /\ pc = "reach"
  /\ analysis.queue = <<>>
  /\ pc' = "searched"
  /\ UNCHANGED <<segments, DATA_BOUNDS, nodes, start_node_map, end_node_map,
                 total_successors, graphFile, nodesFile, analysis, report,
                 reportFile, exitCode, unionFind, unions>>

NextTraversal ==
  \/ ComponentFor
  \/ ComponentPop
  \/ ComponentAppend
  \/ ReachPop
  \/ ReachReturn

\* the interpreter keeps executing the loops
SpecTraversal == InitTraversal /\ [][NextTraversal]_vars /\ WF_vars(NextTraversal)

----------------------------------------------------------------------------
(* Properties of the augmentation run.                                     *)

NodesBuilt == pc \in {"nodes", "adjacency", "augmented", "written", "validated", "exited"}
AdjacencyBuilt == pc \in {"adjacency", "augmented", "written", "validated", "exited"}
OutputsWritten == pc \in {"written", "validated", "exited"}

SegById(id) == segments[IndexOf(segments, id)]

\* C1: once build_adjacency has run, predecessors is the exact inverse of
\* successors: C is in S.successors if and only if S is in C.predecessors,
\* and both lists name segments only.
C1_PredecessorsInverse ==
  AdjacencyBuilt =>
    /\ \A i \in DOMAIN segments : \A j \in DOMAIN segments :
         Contains(segments[i].successors, segments[j].id)
           <=> Contains(segments[j].predecessors, segments[i].id)
    /\ \A i \in DOMAIN segments :
         Range(segments[i].successors) \cup Range(segments[i].predecessors) \subseteq Ids(segments)

\* a graph with a one-way link: C follows S and S does not follow C
C1_Witness ==
  /\ AdjacencyBuilt
  /\ \E i \in DOMAIN segments : \E j \in DOMAIN segments :
       /\ i # j
       /\ Contains(segments[i].successors, segments[j].id)
       /\ ~Contains(segments[j].successors, segments[i].id)
       /\ Contains(segments[j].predecessors, segments[i].id)

\* the position of endpoint k: even k the first point, odd k the last point
\* of segment k \div 2 (counted from 0)
EndpointPos(k) ==
  LET pts == segments[(k \div 2) + 1].points
  IN  IF k % 2 = 0 THEN pts[1] ELSE pts[Len(pts)]

\* the node endpoint k was assigned to
EndpointNode(k) ==
  LET id == segments[(k \div 2) + 1].id
  IN  IF k % 2 = 0 THEN start_node_map[id] ELSE end_node_map[id]

AllEndpoints == 0..(2 * Len(segments) - 1)

\* planar distance strictly below the snap radius
Near(k, m) ==
  LET p == EndpointPos(k)
      q == EndpointPos(m)
  IN  (p[1] - q[1]) * (p[1] - q[1]) + (p[2] - q[2]) * (p[2] - q[2])
        < SNAP_RADIUS * SNAP_RADIUS

\* planar distance exactly the snap radius
AtRadius(k, m) ==
  LET p == EndpointPos(k)
      q == EndpointPos(m)
  IN  (p[1] - q[1]) * (p[1] - q[1]) + (p[2] - q[2]) * (p[2] - q[2])
        = SNAP_RADIUS * SNAP_RADIUS

\* what the edges of E reach from the set S
RECURSIVE Closure(_, _)
Closure(S, E) ==
  LET S2 == S \cup {e[2] : e \in {f \in E : f[1] \in S}}
  IN  IF S2 = S THEN S ELSE Closure(S2, E)

\* the pairs of endpoints strictly closer than the snap radius
NearPairs ==
  UNION {{<<k, m>> : m \in {j \in AllEndpoints : Near(k, j)}} : k \in AllEndpoints}

\* C2: two endpoints are assigned the same node if and only if a chain of
\* endpoints, consecutive ones strictly closer than the snap radius, links them.
C2_SameNodeIffChain ==
  NodesBuilt =>
    LET E == NearPairs
    IN  \A k \in AllEndpoints :
          LET chain == Closure({k}, E)
          IN  \A m \in AllEndpoints :
                (EndpointNode(k) = EndpointNode(m)) <=> (m \in chain)

\* A, B, C share one node with A-C farther than the radius, and two endpoints
\* exactly the radius apart sit in different nodes
C2_Witness ==
  /\ NodesBuilt
  /\ \E a \in AllEndpoints : \E b \in AllEndpoints : \E c \in AllEndpoints :
       /\ Near(a, b) /\ Near(b, c) /\ ~Near(a, c)
       /\ EndpointNode(a) = EndpointNode(c)
  /\ \E k \in AllEndpoints : \E m \in AllEndpoints :
       AtRadius(k, m) /\ EndpointNode(k) # EndpointNode(m)

\* min(|d|, 360 - |d|) for d = S.endHeadingDeg - C.startHeadingDeg
HeadingGap(S, C) ==
  LET d == S.endHeadingDeg - C.startHeadingDeg
      a == IF d < 0 THEN -d ELSE d
  IN  IF a < 360 - a THEN a ELSE 360 - a

\* C3: C is in S.successors if and only if C is not S, C is in the outgoing
\* list of the node at S's end, and the heading gap is at most the threshold.
C3_SuccessorsIffCompatible ==
  AdjacencyBuilt =>
    \A i \in DOMAIN segments : \A j \in DOMAIN segments :
      LET S == segments[i]
          C == segments[j]
      IN  Contains(S.successors, C.id)
            <=> /\ C.id # S.id
                /\ Contains(nodes[end_node_map[S.id]].outgoing, C.id)
                /\ HeadingGap(S, C) <= ANGLE_THRESHOLD

\* a link at a gap of exactly the threshold and a link across the 0/360 wrap
C3_Witness ==
  /\ AdjacencyBuilt
  /\ \E i \in DOMAIN segments : \E j \in DOMAIN segments :
       /\ Contains(segments[i].successors, segments[j].id)
       /\ segments[j].startHeadingDeg - segments[i].endHeadingDeg = ANGLE_THRESHOLD
  /\ \E i \in DOMAIN segments : \E j \in DOMAIN segments :
       /\ Contains(segments[i].successors, segments[j].id)
       /\ segments[i].endHeadingDeg - segments[j].startHeadingDeg = 360 - ANGLE_THRESHOLD

\* C4: no segment lists itself among its successors or its predecessors.
C4_NoSelfLink ==
  AdjacencyBuilt =>
    \A i \in DOMAIN segments :
      /\ ~Contains(segments[i].successors, segments[i].id)
      /\ ~Contains(segments[i].predecessors, segments[i].id)

\* a segment whose two endpoints share a node, is the only outgoing segment
\* of that node, and whose headings would pass the angle check with itself
C4_Witness ==
  /\ AdjacencyBuilt
  /\ \E i \in DOMAIN segments :
       /\ start_node_map[segments[i].id] = end_node_map[segments[i].id]
       /\ nodes[end_node_map[segments[i].id]].outgoing = <<segments[i].id>>
       /\ HeadingGap(segments[i], segments[i]) <= ANGLE_THRESHOLD

\* the nodes of the written node file with a given id
WrittenNodes(id) == {i \in DOMAIN nodesFile.nodes : nodesFile.nodes[i].id = id}

\* C5: in the written graph every segment has a startNodeId and an endNodeId,
\* and each is the id of exactly one node of the written node collection.
C5_NodeIdsExist ==
  OutputsWritten =>
    \A i \in DOMAIN graphFile.segments :
      LET seg == graphFile.segments[i]
      IN  /\ {"startNodeId", "endNodeId"} \subseteq DOMAIN seg
          /\ Cardinality(WrittenNodes(seg.startNodeId)) = 1
          /\ Cardinality(WrittenNodes(seg.endNodeId)) = 1

\* a written graph of two segments and several nodes, one of them shared
C5_Witness ==
  /\ OutputsWritten
  /\ Len(graphFile.segments) = 2
  /\ Len(nodesFile.nodes) = 3
  /\ graphFile.segments[1].endNodeId = graphFile.segments[2].startNodeId
  /\ graphFile.segments[2].endNodeId # graphFile.segments[2].startNodeId

\* the clusters of endpoints: the classes of the chain relation
ChainClusters == LET E == NearPairs IN {Closure({k}, E) : k \in AllEndpoints}

----------------------------------------------------------------------------
(* Properties of the validation run.                                       *)

Validated == pc \in {"validated", "exited"}

\* the graph the validator loaded
G == graphFile.segments
GIds == {G[i].id : i \in DOMAIN G}

\* the edges the successors lists and the predecessors lists hold, from the
\* segment that lists to the segment listed
SuccEdges ==
  LET ids == GIds
  IN  UNION {{<<G[i].id, b>> : b \in Range(Get(G[i], "successors", <<>>)) \cap ids} : i \in DOMAIN G}
PredEdges ==
  LET ids == GIds
  IN  UNION {{<<G[i].id, b>> : b \in Range(Get(G[i], "predecessors", <<>>)) \cap ids} : i \in DOMAIN G}

Reversed(E) == {<<e[2], e[1]>> : e \in E}

PredsInverseOfSuccs == PredEdges = Reversed(SuccEdges)

\* the edges of the undirected graph on successors and predecessors
UndirectedEdges == SuccEdges \cup PredEdges \cup Reversed(SuccEdges) \cup Reversed(PredEdges)

TrueComponents == LET E == UndirectedEdges IN {Closure({id}, E) : id \in GIds}

\* p is the percentage, in hundredths, of num / den to the nearest hundredth
IsPct(p, num, den) ==
  IF den = 0 THEN p = 0
  ELSE /\ 2 * (p * den - 10000 * num) <= den
       /\ 2 * (10000 * num - p * den) <= den

\* C8: when predecessors is the inverse of successors, find_connected_components
\* returns the connected components of the undirected graph, each once (so
\* disjoint and covering), largest first, and the reported largest-component
\* size and percentage are those of the largest of them.
C8_ComponentsExact ==
  (Validated /\ PredsInverseOfSuccs) =>
    LET cs == analysis.components
        tc == TrueComponents
    IN  /\ Range(cs) = tc
        /\ Len(cs) = Cardinality(tc)
        /\ \A k \in 1..(Len(cs) - 1) : Cardinality(cs[k]) >= Cardinality(cs[k + 1])
        /\ report.componentCount = Cardinality(tc)
        /\ \A c \in tc : Cardinality(c) <= report.largestComponentSize
        /\ \/ tc = {} /\ report.largestComponentSize = 0
           \/ \E c \in tc : Cardinality(c) = report.largestComponentSize
        /\ IsPct(report.largestComponentPct, report.largestComponentSize, Len(G))

\* the first segment is alone and the 39 others, one component found after
\* it, are listed first: 97.50 percent
C8_Witness ==
  /\ Validated /\ PredsInverseOfSuccs
  /\ Len(analysis.components) = 2
  /\ analysis.components[2] = {G[1].id}
  /\ Cardinality(analysis.components[1]) = 39
  /\ Len(G) = 40
  /\ report.largestComponentPct = 9750

\* the segments marked as entries
Entries == {G[i].id : i \in {j \in DOMAIN G : Get(G[j], "isEntry", FALSE)}}

\* the entries and what successor edges reach from them
ForwardFromEntries == Closure(Entries, SuccEdges)

\* C9: find_reachable_from_entries returns exactly the entries and what
\* successor edges reach from them; the reported count and percentage are its
\* size and its share of all segments.
C9_ReachableExact ==
  Validated =>
    LET fwd == ForwardFromEntries
    IN  /\ analysis.reachable = fwd
        /\ report.reachableFromEntries = Cardinality(fwd)
        /\ IsPct(report.reachableFromEntriesPct, Cardinality(fwd), Len(G))

\* a predecessor of a reached segment stays unreached, while a successor of
\* an entry that is no entry itself is reached
C9_Witness ==
  /\ Validated /\ PredsInverseOfSuccs
  /\ \E e \in PredEdges : e[1] \in analysis.reachable /\ e[2] \notin analysis.reachable
  /\ \E e \in SuccEdges : /\ e[1] \in Entries /\ e[2] \notin Entries
                          /\ e[2] \in analysis.reachable

\* the segments without successors
NoSuccessors == {i \in DOMAIN G : Get(G[i], "successors", <<>>) = <<>>}

\* the end node of the segment is in the node file and is marked isBoundary
EndsAtBoundary(i) ==
  /\ "endNodeId" \in DOMAIN G[i]
  /\ \E k \in DOMAIN nodesFile.nodes :
       /\ nodesFile.nodes[k].id = G[i].endNodeId
       /\ Get(nodesFile.nodes[k], "isBoundary", FALSE)

\* C10: count_dead_ends counts each segment without successors once, as a
\* boundary dead end when its end node is a boundary node and as an interior
\* dead end otherwise, and counts no other segment.
C10_DeadEndsPartition ==
  Validated =>
    /\ analysis.dead[1] = Cardinality({i \in NoSuccessors : ~EndsAtBoundary(i)})
    /\ analysis.dead[2] = Cardinality({i \in NoSuccessors : EndsAtBoundary(i)})
    /\ analysis.dead[1] + analysis.dead[2] = Cardinality(NoSuccessors)
    /\ report.interiorDeadEnds = analysis.dead[1]
    /\ report.boundaryDeadEnds = analysis.dead[2]

\* an isolated segment ending at an interior node is the one interior dead
\* end, beside a boundary dead end and a segment that has a successor
C10_Witness ==
  /\ Validated
  /\ \E i \in NoSuccessors :
       /\ Get(G[i], "predecessors", <<>>) = <<>>
       /\ \A e \in SuccEdges : e[2] # G[i].id
       /\ ~EndsAtBoundary(i)
       /\ G[i].endNodeId = 1
  /\ analysis.dead = <<1, 1>>
  /\ NoSuccessors # DOMAIN G

\* the three thresholds on the counts of the report; the fraction of an
\* empty graph is 0
LargestMet ==
  /\ report.totalSegments > 0
  /\ report.largestComponentSize * 100 >= 90 * report.totalSegments
ReachMet ==
  /\ report.totalSegments > 0
  /\ report.reachableFromEntries * 100 >= 85 * report.totalSegments
DeadEndsMet ==
  \/ report.totalSegments = 0
  \/ report.interiorDeadEnds * 100 <= 5 * report.totalSegments

----------------------------------------------------------------------------
(* Properties of the classification stage.                                 *)

Augmented == pc \in {"augmented", "written", "validated", "exited"}

\* C11: once augment_segments has run, a segment is an entry if and only if
\* its start node is a boundary node or it has no predecessor.
C11_EntryIffBoundaryOrNoFeeder ==
  Augmented =>
    \A i \in DOMAIN segments :
      segments[i].isEntry
        <=> \/ nodes[segments[i].startNodeId].isBoundary
            \/ segments[i].predecessors = <<>>

\* a segment that starts at a boundary node and has a predecessor is an entry
C11_Witness ==
  /\ Augmented
  /\ \E i \in DOMAIN segments :
       /\ nodes[segments[i].startNodeId].isBoundary
       /\ Len(segments[i].predecessors) >= 1
       /\ segments[i].isEntry

Classified == pc \in {"augmented", "reaugmented"}

\* C12: a segment is major if and only if its largest spawn-rate sample is
\* above 0.30, or its speedRatio is above 0.50, or its lengthMeters is above
\* 150; a value at its threshold does not count.
C12_MajorIffAnyAbove ==
  Classified =>
    \A i \in DOMAIN segments :
      segments[i].isMajor
        <=> \/ \E k \in DOMAIN segments[i].spawnRates : segments[i].spawnRates[k] > 300
            \/ segments[i].speedRatio > 500
            \/ segments[i].lengthMeters > 15000

\* a segment of length 200, speedRatio 0.10 and largest spawn rate 0.05 is
\* major, beside a segment at all three thresholds that is not
C12_Witness ==
  /\ Classified
  /\ \E i \in DOMAIN segments :
       /\ segments[i].lengthMeters = 20000 /\ segments[i].speedRatio = 100
       /\ segments[i].spawnRates = <<50>>
       /\ segments[i].isMajor
  /\ \E i \in DOMAIN segments :
       /\ segments[i].lengthMeters = 15000 /\ segments[i].speedRatio = 500
       /\ segments[i].spawnRates = <<300>>
       /\ ~segments[i].isMajor

----------------------------------------------------------------------------
(* Degenerate input records.                                               *)

\* the list that was read holds a record with fewer than two points beside
\* a record with two or more
DegenerateAmongValid ==
  /\ \E i \in DOMAIN segments : Len(segments[i].points) < 2
  /\ \E i \in DOMAIN segments : Len(segments[i].points) >= 2

\* C13: a record with fewer than two points is skipped and the run goes on:
\* it does not end in an error, and what it writes holds the other records
\* only.
C13_DegenerateSkipped ==
  DegenerateAmongValid =>
    /\ pc # "crashed"
    /\ OutputsWritten =>
         \A i \in DOMAIN graphFile.segments : Len(graphFile.segments[i].points) >= 2

----------------------------------------------------------------------------
(* The validator's report file and exit status.                            *)

\* C14: whatever the verdict, the validator goes on from validate_graph to
\* write the report record to the report file, and its exit status is 0 if
\* and only if the report says passed, 1 otherwise.
C14_ReportWrittenExitReflectsVerdict ==
  /\ pc = "validated" => ENABLED WriteReport
  /\ pc = "exited" =>
       /\ reportFile = report
       /\ exitCode \in {0, 1}
       /\ exitCode = 0 <=> report.passed

\* a failed validation: the report with its failure reasons is on file and
\* the status is 1
C14_Witness ==
  /\ pc = "exited"
  /\ ~report.passed
  /\ reportFile = report
  /\ reportFile.failures # <<>>
  /\ exitCode = 1

----------------------------------------------------------------------------
(* The validator only reads.                                               *)

\* the orders in which the three analyses can be run
AnalysisOrders ==
  {<<"components", "reachable", "dead">>, <<"components", "dead", "reachable">>,
   <<"reachable", "components", "dead">>, <<"reachable", "dead", "components">>,
   <<"dead", "components", "reachable">>, <<"dead", "reachable", "components">>}

\* C15: the validator leaves the graph as it found it: the two files are
\* never rewritten, the segment and node dictionaries validate_graph worked
\* on hold after the analyses what was loaded, and run in any order the
\* three analyses return what validate_graph got from them.
C15_ValidatorOnlyReads ==
  /\ [](Validated =>
          /\ analysis.segments = graphFile.segments
          /\ analysis.nodes = nodesFile.nodes
          /\ \A order \in AnalysisOrders :
               LET r == AnalysesInOrder(order, [segments |-> graphFile.segments,
                                                nodes |-> nodesFile.nodes], None)
               IN  /\ r.results.components = analysis.components
                   /\ r.results.reachable = analysis.reachable
                   /\ r.results.dead = analysis.dead
                   /\ r.mem.segments = graphFile.segments)
  /\ [][graphFile' = graphFile /\ nodesFile' = nodesFile]_vars

\* a validated graph with entries, links and dead ends in which the three
\* analyses all found something
C15_Witness ==
  /\ Validated
  /\ Len(analysis.components) >= 2
  /\ analysis.reachable # {}
  /\ analysis.reachable # GIds
  /\ analysis.dead[1] >= 1
  /\ SuccEdges # {}
  /\ analysis.segments = graphFile.segments

----------------------------------------------------------------------------
(* Properties of the fingerprint.                                          *)

IdsOf(segs) == {segs[i].id : i \in DOMAIN segs}
IdCountsOf(segs) == {<<segs[i].id, Len(segs[i].points)>> : i \in DOMAIN segs}
IdOrder(segs) == [i \in DOMAIN segs |-> segs[i].id]

\* a run fingerprints the segments it loaded, the previous run's file at hand
Refingerprint ==
  pc = "fingerprint" /\ pc' = "fingerprinted" /\ graphFile # None

\* C16: a run whose segments have the ids and point counts of the previous
\* run's segments writes the previous run's fingerprint, whatever the order
\* of the segments in the list and whatever else the records hold.
C16_FingerprintOfIdsAndCounts ==
  [][(Refingerprint /\ IdCountsOf(segments) = IdCountsOf(graphFile.segments))
       => graphFile'.meta.graphVersion = graphFile.meta.graphVersion]_vars

C16_Witness ==
  /\ pc = "fingerprint"
  /\ graphFile # None
  /\ IdCountsOf(segments) = IdCountsOf(graphFile.segments)
  /\ IdOrder(segments) # IdOrder(graphFile.segments)
  /\ segments[1].points # graphFile.segments[Len(segments)].points
  /\ compute_graph_version(segments) = graphFile.meta.graphVersion

\* a run whose segments have the ids of the previous run's segments and a
\* different point count for one of them
CountChanged ==
  /\ Refingerprint
  /\ IdsOf(segments) = IdsOf(graphFile.segments)
  /\ IdCountsOf(segments) # IdCountsOf(graphFile.segments)

\* C17 as stated: a changed point count always gives another fingerprint.
C17_CountChangeChangesFingerprint ==
  [][CountChanged => graphFile'.meta.graphVersion # graphFile.meta.graphVersion]_vars

\* C17: a changed point count gives another hashed text, and another
\* fingerprint unless the two texts have the same twelve-digit MD5 prefix.
C17_CountChangeChangesText ==
  [][CountChanged =>
       /\ VersionText(SortById(segments)) # VersionText(SortById(graphFile.segments))
       /\ (graphFile'.meta.graphVersion = graphFile.meta.graphVersion
             => {VersionText(SortById(segments)), VersionText(SortById(graphFile.segments))}
                  \in CollidingTexts)]_vars

C17_Witness ==
  /\ pc = "fingerprint"
  /\ graphFile # None
  /\ IdsOf(segments) = IdsOf(graphFile.segments)
  /\ IdCountsOf(segments) # IdCountsOf(graphFile.segments)
  /\ VersionText(SortById(segments)) # VersionText(SortById(graphFile.segments))
  /\ compute_graph_version(segments) = graphFile.meta.graphVersion

----------------------------------------------------------------------------
(* Properties of a run of augment_segments as a whole.                     *)

AugmentRun ==
  \/ pc = "adjacency" /\ pc' = "augmented"
  \/ pc = "augmented" /\ pc' = "reaugmented"

\* C18: augment_segments run again on the records it has classified, with
\* points, nodes and predecessors as they were, gives every segment the
\* isMajor and isEntry of the first run.
C18_ReclassifiedSame ==
  [][(pc = "augmented" /\ pc' = "reaugmented") =>
       /\ Len(segments') = Len(segments)
       /\ \A i \in DOMAIN segments :
            /\ segments'[i].isMajor = segments[i].isMajor
            /\ segments'[i].isEntry = segments[i].isEntry]_vars

C18_Witness ==
  /\ pc = "reaugmented"
  /\ \E i, k \in DOMAIN segments :
       /\ segments[i].isMajor /\ ~segments[k].isMajor
       /\ segments[k].lengthMeters * 2 > LENGTH_THRESHOLD * 100
  /\ \E i, k \in DOMAIN segments : segments[i].isEntry /\ ~segments[k].isEntry

ClassificationFields == {"isMajor", "isEntry"}
AugmentedFields ==
  {"startNodeId", "endNodeId", "speedRatio", "lengthMeters", "isMajor", "isEntry"}

\* the fields of `fields` are the only ones a step sets or changes
OnlySets(fields) ==
  /\ Len(segments') = Len(segments)
  /\ \A i \in DOMAIN segments :
       /\ DOMAIN segments[i] \subseteq DOMAIN segments'[i]
       /\ \A k \in DOMAIN segments'[i] \ fields :
            k \in DOMAIN segments[i] /\ segments'[i][k] = segments[i][k]

\* the records with the classification of every record but the i-th replaced
OthersClassified(segs, i, major, entry) ==
  [k \in DOMAIN segs |->
     IF k = i THEN segs[k] ELSE Set(segs[k], [isMajor |-> major, isEntry |-> entry])]

\* the orders in which the records can be taken
ProcessingOrders(segs) ==
  {[k \in DOMAIN segs |-> p[k]] : p \in Permutations(DOMAIN segs)}

\* the result for each segment is that of the loop body on its own record,
\* whatever the order and whatever classification the other records carry
EachOnItsOwn ==
  /\ \A order \in ProcessingOrders(segments) :
       AugmentInOrder(order, segments, nodes, start_node_map, end_node_map) = segments'
  /\ \A i \in DOMAIN segments : \A major, entry \in BOOLEAN :
       augment_segments(OthersClassified(segments, i, major, entry),
                        nodes, start_node_map, end_node_map)[i] = segments'[i]

\* C19 as stated: a run of augment_segments sets isMajor and isEntry and
\* nothing else, on segments or nodes, each segment on its own.
C19_SetsOnlyClassification ==
  [][AugmentRun =>
       /\ OnlySets(ClassificationFields)
       /\ nodes' = nodes
       /\ EachOnItsOwn]_vars

\* C19: a run of augment_segments sets startNodeId, endNodeId, speedRatio,
\* lengthMeters, isMajor and isEntry on every segment and changes no other
\* segment field and no node; the values of a segment do not depend on the
\* classification of another segment or on the order of processing.
C19_SetsOnlyAugmentedFields ==
  [][AugmentRun =>
       /\ OnlySets(AugmentedFields)
       /\ \A i \in DOMAIN segments' : AugmentedFields \subseteq DOMAIN segments'[i]
       /\ nodes' = nodes
       /\ start_node_map' = start_node_map /\ end_node_map' = end_node_map
       /\ EachOnItsOwn]_vars

C19_Witness ==
  /\ pc = "augmented"
  /\ Len(segments) > 1
  /\ \A i \in DOMAIN segments : AugmentedFields \subseteq DOMAIN segments[i]
  /\ segments[1].isMajor /\ ~segments[Len(segments)].isMajor
  /\ segments[1].startNodeId # segments[Len(segments)].startNodeId
  /\ DOMAIN nodes # {}

----------------------------------------------------------------------------
(* The node collection after build_node_set.                               *)

\* C20: once build_node_set has returned, the node collection stays what it
\* returned: build_adjacency, augment_segments, the fingerprint and the
\* output add, merge and delete no node and change no node's isBoundary,
\* position, outgoing or incoming; the nodes file holds exactly these nodes.
C20_NodesFixedOnceBuilt ==
  /\ [](NodesBuilt => nodes = build_node_set(DATA_BOUNDS, segments).nodes)
  /\ [][NodesBuilt => nodes' = nodes]_vars
  /\ [](OutputsWritten =>
          /\ Len(nodesFile.nodes) = Cardinality(DOMAIN nodes)
          /\ nodesFile.meta.nodeCount = Cardinality(DOMAIN nodes)
          /\ \A i \in DOMAIN nodesFile.nodes :
               nodesFile.nodes[i] = build_node_set(DATA_BOUNDS, segments).nodes[i - 1])

C20_Witness ==
  /\ OutputsWritten
  /\ Len(nodesFile.nodes) >= 2
  /\ \E i, k \in DOMAIN nodesFile.nodes :
       /\ nodesFile.nodes[i].isBoundary /\ ~nodesFile.nodes[k].isBoundary
       /\ Len(nodesFile.nodes[k].outgoing) + Len(nodesFile.nodes[k].incoming) >= 2
  /\ \E i \in DOMAIN segments : Len(segments[i].successors) >= 1

----------------------------------------------------------------------------
(* The order of the stages of the augmentation run.                        *)

StageOrder == <<"load", "bounds", "nodes", "adjacency", "augmented", "written">>
StageOf(p) == CHOOSE k \in DOMAIN StageOrder : StageOrder[k] = p
InRun(p) == p \in Range(StageOrder)

\* an input on which a stage raises: no segment at all, or a segment with
\* fewer than two points
StageRaises == segments = <<>> \/ \E i \in DOMAIN segments : Len(segments[i].points) < 2

\* C21: the run goes through bounds, clustering, adjacency, classification
\* and fingerprint-and-write in this order, each once; a stage's result is
\* there exactly when the stage has run; no output file exists before the
\* last stage, and a run that is aborted has written none.
C21_StagesInOrderOutputLast ==
  /\ [][(InRun(pc) /\ pc # "written") =>
          (pc' = "crashed" \/ pc' = StageOrder[StageOf(pc) + 1])]_vars
  /\ [](InRun(pc) =>
          /\ (DATA_BOUNDS # None) = (StageOf(pc) >= 2)
          /\ (nodes # None) = (StageOf(pc) >= 3)
          /\ (segments # <<>> /\ \A i \in DOMAIN segments : "successors" \in DOMAIN segments[i]) = (StageOf(pc) >= 4)
          /\ (segments # <<>> /\ \A i \in DOMAIN segments : "isMajor" \in DOMAIN segments[i]) = (StageOf(pc) >= 5)
          /\ (graphFile # None) = (StageOf(pc) >= 6)
          /\ (nodesFile # None) = (StageOf(pc) >= 6))
  /\ [](pc = "crashed" => graphFile = None /\ nodesFile = None)
  /\ [](StageRaises => graphFile = None /\ nodesFile = None)
  /\ [](pc = "written" =>
          /\ graphFile.segments = segments
          /\ graphFile.meta.graphVersion = compute_graph_version(segments)
          /\ graphFile.meta.totalSuccessorLinks = total_successors)

C21_Witness ==
  /\ pc = "written"
  /\ graphFile # None /\ nodesFile # None
  /\ Len(graphFile.segments) >= 2
  /\ graphFile.meta.totalSuccessorLinks >= 1
  /\ graphFile.meta.entryPointCount >= 1

----------------------------------------------------------------------------
(* The link counts of build_adjacency.                                     *)

PredecessorLinks == SumSeq([i \in DOMAIN segments |-> Len(segments[i].predecessors)])
SuccessorLinks == SumSeq([i \in DOMAIN segments |-> Len(segments[i].successors)])

\* C22: whatever segments and nodes build_adjacency is given, the
\* predecessor links it records are as many as the successor links it
\* counted, so its final assertion holds and no run ends there.
C22_LinkCountsAgree ==
  /\ (pc = "nodes" /\ ~RaisesIndexError(segments, 2)) =>
       build_adjacency(segments, nodes, start_node_map, end_node_map).ok
  /\ AdjacencyBuilt =>
       PredecessorLinks = total_successors /\ SuccessorLinks = total_successors
  /\ pc = "crashed" => StageRaises

C22_Witness ==
  /\ pc = "adjacency"
  /\ total_successors >= 2
  /\ PredecessorLinks = total_successors
  /\ \E i \in DOMAIN segments : Len(segments[i].predecessors) >= 1

----------------------------------------------------------------------------
(* Properties of the union-find.                                           *)

\* which elements share a representative
PartitionOf(uf) ==
  {{y \in DOMAIN uf.parent : UFRoot(uf.parent, y) = UFRoot(uf.parent, x)} :
     x \in DOMAIN uf.parent}

\* the clusters as build_node_set groups them, as sets of members
ClusterSets(uf) ==
  LET clusters == GroupClusters(uf, 0, MaxElems, <<>>)
  IN  {Range(clusters[k].indices) : k \in DOMAIN clusters}

\* the classes of the equivalence generated by the pairs of P
ClassesOf(P) ==
  LET E == P \cup Reversed(P)
  IN  {Closure({x}, E) : x \in Elems}

\* C23: in whatever order the pairs are united, with either member first
\* and with finds in between, the elements that share a representative are
\* those joined by the pairs united so far, and the final clusters are those
\* of the loop of build_node_set taken in its own order.
C23_PartitionOrderFree ==
  /\ PartitionOf(unionFind) = ClassesOf(unions.done)
  /\ pc = "grouped" =>
       /\ ClusterSets(unionFind) = ClassesOf(unions.done)
       /\ ClusterSets(unionFind)
            = ClusterSets(MergePairsFrom(UFInit(MaxElems), unions.done, 0, 1, MaxElems))

\* all elements in one cluster of rank two whose representative is not the
\* one the loop of build_node_set arrives at
C23_Witness ==
  /\ pc = "grouped"
  /\ Cardinality(unions.done) >= 3
  /\ ClusterSets(unionFind) = {Elems}
  /\ \E x \in Elems : unionFind.rank[x] >= 2
  /\ UFRoot(unionFind.parent, 0)
       # UFRoot(MergePairsFrom(UFInit(MaxElems), unions.done, 0, 1, MaxElems).parent, 0)

----------------------------------------------------------------------------
(* The incidence lists of the nodes.                                       *)

\* how often e occurs in the list lst
Occurrences(lst, e) == Cardinality({k \in DOMAIN lst : lst[k] = e})

\* C24: once build_node_set has returned, every segment id stands once in
\* the outgoing list of its start node and in no other outgoing list, once
\* in the incoming list of its end node and in no other incoming list, and
\* every node has an endpoint in one of its two lists.
C24_IncidenceListsExact ==
  NodesBuilt =>
    /\ \A i \in DOMAIN segments : \A n \in DOMAIN nodes :
         /\ Occurrences(nodes[n].outgoing, segments[i].id)
              = IF n = start_node_map[segments[i].id] THEN 1 ELSE 0
         /\ Occurrences(nodes[n].incoming, segments[i].id)
              = IF n = end_node_map[segments[i].id] THEN 1 ELSE 0
    /\ \A n \in DOMAIN nodes :
         /\ Range(nodes[n].outgoing) \cup Range(nodes[n].incoming)
              \subseteq {segments[i].id : i \in DOMAIN segments}
         /\ nodes[n].outgoing # <<>> \/ nodes[n].incoming # <<>>

C24_Witness ==
  /\ pc = "nodes"
  /\ \E n, m \in DOMAIN nodes :
       /\ n # m
       /\ Len(nodes[n].outgoing) >= 2
       /\ nodes[m].outgoing = <<>>
       /\ Len(nodes[m].incoming) >= 1

----------------------------------------------------------------------------
(* Boundary nodes.                                                         *)

\* every point of every input polyline
RawPoints == UNION {Range(segments[i].points) : i \in DOMAIN segments}

\* the endpoints assigned to node n, their number and coordinate sums
EndpointsOf(n) == {k \in AllEndpoints : EndpointNode(k) = n}
CoordSum(n, axis) ==
  SumSeq([k \in 1..(2 * Len(segments)) |->
            IF EndpointNode(k - 1) = n THEN EndpointPos(k - 1)[axis] ELSE 0])

\* the centroid of node n is closer than d to the line coord = edge; the
\* centroid is CoordSum / count, compared without dividing
CloserThan(n, axis, edge, d) ==
  LET cnt == Cardinality(EndpointsOf(n))
  IN  Abs(CoordSum(n, axis) - edge * cnt) < d * cnt

\* C25: the bounding rectangle is that of all points of all polylines,
\* computed before clustering and the same at every later stage, and a node
\* is a boundary node if and only if its centroid is closer than the buffer
\* of 50 to one of the four edges of that rectangle.
C25_BoundaryIffNearEdge ==
  /\ NodesBuilt => DATA_BOUNDS # None
  /\ DATA_BOUNDS # None =>
       /\ DATA_BOUNDS.xMin = SetMin({pt[1] : pt \in RawPoints})
       /\ DATA_BOUNDS.xMax = SetMax({pt[1] : pt \in RawPoints})
       /\ DATA_BOUNDS.zMin = SetMin({pt[2] : pt \in RawPoints})
       /\ DATA_BOUNDS.zMax = SetMax({pt[2] : pt \in RawPoints})
  /\ NodesBuilt =>
       \A n \in DOMAIN nodes :
         nodes[n].isBoundary
           <=> \/ CloserThan(n, 1, DATA_BOUNDS.xMin, 50)
               \/ CloserThan(n, 1, DATA_BOUNDS.xMax, 50)
               \/ CloserThan(n, 2, DATA_BOUNDS.zMin, 50)
               \/ CloserThan(n, 2, DATA_BOUNDS.zMax, 50)

\* the extent is set by points that are no endpoints, and a node that lies
\* exactly 50 from an edge is interior
C25_Witness ==
  /\ pc = "nodes"
  /\ DATA_BOUNDS.xMax \notin {EndpointPos(k)[1] : k \in AllEndpoints}
  /\ \E n \in DOMAIN nodes :
       /\ ~nodes[n].isBoundary
       /\ CoordSum(n, 1) = (DATA_BOUNDS.xMax - 50) * Cardinality(EndpointsOf(n))

----------------------------------------------------------------------------
(* Unreachable segments of a graph the augmentation run produced.          *)

Unreached == {i \in DOMAIN G : G[i].id \notin analysis.reachable}

\* C26: in the graph an augmentation run wrote, every segment that the
\* validator does not reach from the entries has a predecessor, and none of
\* its predecessors is reached either.
C26_UnreachedClosedUnderPredecessors ==
  (Validated /\ segments # <<>>) =>
    \A i \in Unreached :
      /\ Len(G[i].predecessors) >= 1
      /\ \A k \in DOMAIN G[i].predecessors : G[i].predecessors[k] \notin analysis.reachable

\* two segments that feed each other away from the boundary are unreached
C26_Witness ==
  /\ pc = "validated"
  /\ segments # <<>>
  /\ Cardinality(Unreached) >= 2
  /\ \A i \in Unreached : \E k \in Unreached : G[k].id \in Range(G[i].successors)

----------------------------------------------------------------------------
(* The summary marks of the validator.                                     *)

Summarised == pc = "exited"

\* C27: each mark of the summary agrees with the report: the threshold is
\* marked as met if and only if the report holds no failure reason for it.
C27_MarksAgreeWithFailures ==
  Summarised =>
    /\ LargestMark(reportFile) <=> ~Contains(reportFile.failures, "largest_component")
    /\ ReachMark(reportFile) <=> ~Contains(reportFile.failures, "entry_reachability")
    /\ DeadEndMark(reportFile) <=> ~Contains(reportFile.failures, "interior_dead_ends")

----------------------------------------------------------------------------
(* The validator on a graph without segments.                              *)

EmptyGraph == Len(G) = 0

\* C28: on a graph without segments the validator runs through without an
\* error; the component count, every size, percentage and average of the
\* report is 0, and the report is failed for the largest-component and the
\* entry-reachability threshold and not for the interior-dead-end threshold.
C28_EmptyGraphFailsTwoThresholds ==
  /\ (pc = "written" /\ EmptyGraph) => ENABLED ValidateGraph
  /\ (pc = "validated" /\ EmptyGraph) => ENABLED WriteReport
  /\ (Validated /\ EmptyGraph) =>
       /\ analysis.components = <<>>
       /\ analysis.reachable = {}
       /\ report.totalSegments = 0
       /\ report.componentCount = 0
       /\ report.largestComponentSize = 0
       /\ report.largestComponentPct = 0
       /\ report.reachableFromEntries = 0
       /\ report.reachableFromEntriesPct = 0
       /\ report.interiorDeadEnds = 0
       /\ report.interiorDeadEndPct = 0
       /\ report.boundaryDeadEnds = 0
       /\ report.entryPointCount = 0
       /\ report.majorSegmentCount = 0
       /\ report.avgSuccessors = 0
       /\ report.avgPredecessors = 0
       /\ ~report.passed
       /\ report.failures = <<"largest_component", "entry_reachability">>
  /\ (pc = "exited" /\ EmptyGraph) => (reportFile = report /\ exitCode = 1)

C28_Witness ==
  /\ pc = "exited"
  /\ EmptyGraph
  /\ reportFile.totalSegments = 0
  /\ reportFile.failures = <<"largest_component", "entry_reachability">>
  /\ exitCode = 1

----------------------------------------------------------------------------
(* Termination of the two searches.                                        *)

NoRepeats(lst) == \A a, b \in DOMAIN lst : lst[a] = lst[b] => a = b

\* C29: on every finite graph, with cycles, two-way pairs, self-links and
\* successor ids that name no segment, both searches come to an end; no id
\* is added to the visited or reachable set twice, however often it was
\* enqueued, and the sets at the end are those of the two functions.
C29_SearchesTerminate ==
  /\ <>(pc = "searched")
  /\ [](NoRepeats(analysis.added))
  /\ [](pc = "reach" =>
          Range(analysis.components) = Range(find_connected_components(G)))
  /\ [](pc = "searched" => analysis.reachable = find_reachable_from_entries(G))

\* a finished search on a graph with a cycle and a successor id that names
\* no segment, in which an id was enqueued twice and added once
C29_Witness ==
  /\ pc = "searched"
  /\ ~NoRepeats(analysis.enqueued)
  /\ NoRepeats(analysis.added)
  /\ Len(analysis.added) >= 3
  /\ \E i, k \in DOMAIN G :
       /\ i # k
       /\ Contains(G[i].successors, G[k].id) /\ Contains(G[k].successors, G[i].id)
  /\ \E i \in DOMAIN G : ~(Range(G[i].successors) \subseteq GIds)

----------------------------------------------------------------------------
(* The successor and predecessor lists as sets of links.                   *)

\* the directed pairs (segment, successor) of the lists
SuccessorPairs ==
  UNION {{<<segments[i].id, b>> : b \in Range(segments[i].successors)} : i \in DOMAIN segments}

\* C30: after build_adjacency no successors list and no predecessors list
\* names an id twice, and the total of successor links, as counted by
\* build_adjacency and as written to the graph file, is the number of
\* distinct directed successor pairs.
C30_LinksListedOnce ==
  /\ AdjacencyBuilt =>
       /\ \A i \in DOMAIN segments :
            NoRepeats(segments[i].successors) /\ NoRepeats(segments[i].predecessors)
       /\ total_successors = Cardinality(SuccessorPairs)
  /\ OutputsWritten =>
       graphFile.meta.totalSuccessorLinks = Cardinality(SuccessorPairs)

\* a segment with two successors, a segment with two predecessors, and a
\* segment that starts and ends at one node
C30_Witness ==
  /\ pc = "written"
  /\ graphFile.meta.totalSuccessorLinks >= 4
  /\ \E i \in DOMAIN segments : Len(segments[i].successors) >= 2
  /\ \E i \in DOMAIN segments : Len(segments[i].predecessors) >= 2
  /\ \E i \in DOMAIN segments : segments[i].startNodeId = segments[i].endNodeId

====
